---- MODULE Spec2Model ----
(***************************************************************************)
(* Model of the concurrent placement-search orchestrator of the relic      *)
(* randomizer: util.randomizeRelics (src/util.js) and the workers it       *)
(* exchanges messages with.                                                 *)
(*                                                                          *)
(* The orchestrator runs on one event loop: the synchronous part of         *)
(* randomizeRelics (the for loop over the workers) is modelled by Start,   *)
(* each invocation of a worker's 'message' listener by one of the Recv*    *)
(* actions, and the Promise.all(...).then(...) continuation by Finish.      *)
(* The workers themselves (worker.js) are not part of the sources at hand: *)
(* they are modelled from the message contract of the specification.       *)
(*                                                                          *)
(* The second part models the solution minimizer and renderer,             *)
(* util.renderSolutions with the functions it is made of; one action       *)
(* applies it to the proof it is handed.                                    *)
(*                                                                          *)
(* The third part models the command line (the randomize script): the      *)
(* worker count it derives from the number of cores, and the stages of the *)
(* asynchronous function randomize up to the write of the output file.      *)
(***************************************************************************)
EXTENDS Integers, Sequences, FiniteSets, TLC

(***************************** bounds **************************************)
\* Number of workers handed to randomizeRelics (workers.length).
NumWorkers == 3
\* Largest number of attempt messages dispatched in one orchestration: the
\* workers of the model answer at most MaxAttempts - NumWorkers nonces with
\* a reply the orchestrator answers with another attempt.
MaxAttempts == 5
\* Largest number of cores os.cpus() reports.
MaxCores == 64

(********************** program constants **********************************)
\* The nonce base the command line passes to randomizeRelics.
NonceBase == 3
\* rounds defaults to 1 when the caller passes none.
DefaultRounds == 1
\* constants.WORKER_ACTION.RELICS
RELICS == "relics"

Workers == 1..NumWorkers
NonceLimit == NonceBase + MaxAttempts
MaxFailures == MaxAttempts - NumWorkers
Nonces == NonceBase..(NonceLimit - 1)

VARIABLES
  started,      \* number of iterations of the for loop already executed
  nonce,        \* the nonce counter (parameter `nonce`, captured by postMessage)
  done,         \* the `done` flag (undefined is FALSE)
  running,      \* running[i]
  promises,     \* promises[i]: Unresolved, or the value it was resolved with
  inbox,        \* messages posted to worker i and not yet taken by it
  replies,      \* replies posted by worker i and not yet handled by its listener
  returned,     \* settlement of the promise randomizeRelics returns
  thrown,       \* errors thrown out of the message listeners, in order
  host,         \* "node" (an uncaught exception ends the process) or "browser"
  outcomes,     \* outcome of the attempt of each nonce, once a worker ran it
  sentLog,      \* history: every message posted to worker i, in order
  dispatched,   \* history: <<worker, nonce>> of every attempt message, in order
  received,     \* history: <<worker, reply>> of every reply a listener handled
  run,          \* index of the current invocation of randomizeRelics
  firstResult,  \* settlement of the previous invocation (NotSettled in run 1)
  solutions,    \* the argument of renderSolutions: a list of alternative locks
  rendering,    \* what renderSolutions computed, stage by stage
  tree,         \* a compound node handed to renderNode
  treeLines,    \* the lines renderNode returned for it
  extensions,   \* the table of extension locations (extension.js)
  options,      \* the options of a preset: relicLocations
  helpLocations,   \* the locations presetMetaHelp lists
  presets,         \* the loaded presets (build/presets): id, relicLocations
  keptLocations,   \* the locations the filter of optionsToString keeps
  locationString,  \* the string optionsToString returns
  cores,        \* os.cpus().length
  workerCount,  \* workers.length of the command line (NoCount: not computed)
  argv,         \* the file arguments of the command line: inBin, outBin
  job,          \* version, option string and seed of the run
  failingAttempts, \* how many of the first attempts of the relic search fail
  haveChecksum,    \* haveChecksum (undefined is FALSE)
  expectChecksum,  \* expectChecksum
  stage,        \* the stage the function randomize is at
  completed,    \* history: the stages that succeeded, in order
  failure,      \* history: the stage that failed ("none": none did)
  salts,        \* history: every salt computed, with its use and its nonce
  checksum,     \* checksum
  exitStatus,   \* the status the process ended with (none: it has not ended)
  written       \* the files written so far

orchestratorVars ==
  <<started, nonce, done, running, promises, inbox, replies, returned,
    thrown, host, outcomes, sentLog, dispatched, received, run, firstResult>>

renderVars == <<solutions, rendering>>
nodeVars == <<tree, treeLines>>
locationVars ==
  <<extensions, options, presets, helpLocations, keptLocations, locationString>>
runVars == <<argv, job, failingAttempts, haveChecksum, expectChecksum, stage, completed, failure,
             salts, checksum, exitStatus, written>>
cliVars == <<cores, workerCount, runVars>>
toolVars == <<renderVars, nodeVars, locationVars, cliVars>>

vars == <<started, nonce, done, running, promises, inbox, replies, returned,
          thrown, host, outcomes, sentLog, dispatched, received, run,
          firstResult, solutions, rendering, tree, treeLines, extensions,
          options, presets, helpLocations, keptLocations, locationString,
          cores, workerCount,
          argv, job, failingAttempts, haveChecksum, expectChecksum, stage, completed, failure,
          salts, checksum, exitStatus, written>>

(************************** worker replies *********************************)
\* A reply is a JSON object; keys is the set of its own properties.
SuccessReply(n) ==
  [keys |-> {"done", "nonce", "result"}, done |-> TRUE, nonce |-> n,
   error |-> "none"]
FailReply ==
  [keys |-> {"done"}, done |-> FALSE, nonce |-> 0, error |-> "none"]
\* An error report: error is an object {name, message, stack}.
ErrorReply ==
  [keys |-> {"error"}, done |-> FALSE, nonce |-> 0, error |-> "SearchError"]
\* A reply whose error property is the boolean true.
BooleanErrorReply ==
  [keys |-> {"error"}, done |-> FALSE, nonce |-> 0, error |-> "true"]

Kinds == {"success", "fail", "error", "errorTrue"}

ReplyOf(kind, n) ==
  CASE kind = "success" -> SuccessReply(n)
    [] kind = "fail" -> FailReply
    [] kind = "error" -> ErrorReply
    [] OTHER -> BooleanErrorReply

\* promises[i] before resolve was called.
Unresolved ==
  [keys |-> {"unresolved"}, done |-> FALSE, nonce |-> 0, error |-> "none"]
\* The promise returned by randomizeRelics before it settles.
NotSettled ==
  [state |-> "pending", value |-> Unresolved]

\* JavaScript views of a reply.
HasError(r) == "error" \in r.keys
ErrorTruthy(r) == HasError(r) /\ r.error \notin {"none", "false"}
ErrorIsBoolean(r) == r.error \in {"true", "false"}
\* Mutation: result.done is never seen.
DoneNeverSeen(r) == FALSE
\* Mutation: 'done' in result instead of result.done.
DoneKeyPresent(r) == "done" \in r.keys
DoneTruthy(r) == "done" \in r.keys /\ r.done
\* result.error && typeof(result.error) !== 'boolean'
Throws(r) == ErrorTruthy(r) /\ ~ErrorIsBoolean(r)
\* candidate.nonce < result.nonce: false when either nonce is undefined.
NonceLess(a, b) == "nonce" \in a.keys /\ "nonce" \in b.keys /\ a.nonce < b.nonce

(************************ messages to workers ******************************)
LoadMessage ==
  [keys |-> {"url"}, action |-> "none", nonce |-> 0, rounds |-> 0,
   bootstrap |-> FALSE, cancel |-> FALSE]

\* Mutation: the bootstrap payload is attached to every attempt message.
AttemptMessageAlwaysBootstrap(n, bootstrap) ==
  [keys |-> {"action", "nonce", "rounds", "bootstrap", "options", "version",
             "seed", "removed"},
   action |-> "relics", nonce |-> n, rounds |-> 1,
   bootstrap |-> TRUE, cancel |-> FALSE]
AttemptMessage(n, bootstrap) ==
  [keys |-> {"action", "nonce", "rounds"} \cup
            (IF bootstrap
               THEN {"bootstrap", "options", "version", "seed", "removed"}
               ELSE {}),
   action |-> RELICS, nonce |-> n, rounds |-> DefaultRounds,
   bootstrap |-> bootstrap, cancel |-> FALSE]

CancelMessage ==
  [keys |-> {"action", "cancel"}, action |-> RELICS, nonce |-> 0,
   rounds |-> 0, bootstrap |-> FALSE, cancel |-> TRUE]

IsAttempt(m) == "nonce" \in m.keys

(*************************** orchestrator **********************************)
\* The process is alive: under node an exception thrown out of a listener
\* is an uncaught exception and ends the process.
Alive == ~(host = "node" /\ thrown # <<>>)

\* Mutation: ++nonce instead of nonce++.
PreIncrementNonce(n) == n + 1
\* The nonce postMessage puts in the message (nonce++ yields the old value).
MessageNonce(n) == n
\* Mutation: the counter is incremented twice.
NextNonceTwice(n) == n + 2
\* The nonce counter after postMessage.
NextNonce(n) == n + 1

\* Mutation: every message is posted twice.
PostTwice(box, i, m) == [box EXCEPT ![i] = Append(Append(@, m), m)]
\* postMessage(bootstrap) of worker i: the new inbox, given the old one.
Post(box, i, m) == [box EXCEPT ![i] = Append(@, m)]

\* Mutation: resolve is never called.
ResolveNothing(p, i, r) == p
\* resolve(result): a promise keeps the first value it is resolved with.
Resolve(p, i, r) == IF p[i] = Unresolved THEN [p EXCEPT ![i] = r] ELSE p

\* Mutation: no cancel message is posted.
CancelTargetsNone(i) == {}
\* Mutation: the cancel message is posted to every worker.
CancelTargetsAll(i) == Workers
\* The recipients of the cancel message when worker i's reply is resolved.
CancelTargets(i) == {i}

\* Mutation: the continuation runs as soon as one promise is resolved.
AnyResolved == \E i \in Workers : promises[i] # Unresolved
\* Promise.all(promises) is fulfilled.
AllResolved == \A i \in Workers : promises[i] # Unresolved

\* One step of the reducer of results.reduce.
ReduceStep(candidate, result) ==
  IF HasError(candidate) THEN result
  ELSE IF HasError(result) \/ NonceLess(candidate, result) THEN candidate
  ELSE result

\* results.reduce(f) without initial value over results[1..k].
RECURSIVE Reduce(_, _)
Reduce(results, k) ==
  IF k = 1 THEN results[1]
  ELSE ReduceStep(Reduce(results, k - 1), results[k])

\* randomizeRelics has been entered and nothing was executed yet.
NotStarted ==
  /\ started = 0
  /\ nonce = NonceBase
  /\ done = FALSE
  /\ running = [i \in Workers |-> TRUE]
  /\ promises = [i \in Workers |-> Unresolved]
  /\ inbox = [i \in Workers |-> <<>>]
  /\ replies = [i \in Workers |-> <<>>]
  /\ returned = NotSettled
  /\ thrown = <<>>
  /\ outcomes = [n \in Nonces |-> "undecided"]
  /\ sentLog = [i \in Workers |-> <<>>]
  /\ dispatched = <<>>
  /\ received = <<>>
  /\ run = 1
  /\ firstResult = NotSettled

\* renderSolutions was not called.
NotRendered ==
  [minified |-> [depth |-> 0, weight |-> 0], pruned |-> <<>>,
   simplified |-> <<>>, collapsed |-> <<>>, lines |-> <<>>]

\* Nothing was handed to the minimizer.
RenderIdle ==
  /\ solutions = <<>>
  /\ rendering = NotRendered

\* Nothing was handed to renderNode.
NodeIdle ==
  /\ tree = [items |-> <<>>]
  /\ treeLines = <<>>

\* The string "r": relic locations are randomized, no extension and no
\* lock is written.
PlainString == [preset |-> "none", extension |-> "none", locations |-> <<>>]

\* No preset was loaded.
LocationsIdle ==
  /\ extensions = <<>>
  /\ options = [relicLocations |-> [keys |-> {}, extension |-> "undefined"]]
  /\ presets = <<>>
  /\ helpLocations = <<>>
  /\ keptLocations = <<>>
  /\ locationString = PlainString

\* No array of workers was made yet (no array has this length).
NoCount == -1

\* JavaScript values of the command line: undefined, NaN and the numbers.
Undefined == [type |-> "undefined", value |-> 0]
NaN == [type |-> "NaN", value |-> 0]
Num(n) == [type |-> "number", value |-> n]

\* The function randomize was not called.
RunIdle ==
  /\ argv = [inBin |-> FALSE, outBin |-> FALSE]
  /\ job = [version |-> "", options |-> "", seed |-> ""]
  /\ failingAttempts = 0
  /\ haveChecksum = FALSE
  /\ expectChecksum = Undefined
  /\ stage = "idle"
  /\ completed = <<>>
  /\ failure = "none"
  /\ salts = <<>>
  /\ checksum = Undefined
  /\ exitStatus = <<>>
  /\ written = {}

\* The command line was not run.
CliIdle ==
  /\ cores = 0
  /\ workerCount = NoCount
  /\ RunIdle

ToolsIdle == RenderIdle /\ NodeIdle /\ LocationsIdle /\ CliIdle

Init ==
  /\ NotStarted
  /\ host \in {"node", "browser"}
  /\ ToolsIdle

\* One iteration of the for loop: loadWorker(worker, url), the listener is
\* registered, postMessage(true).
Start ==
  /\ Alive
  /\ started < NumWorkers
  /\ LET i == started + 1
         m == AttemptMessage(MessageNonce(nonce), TRUE)
     IN /\ inbox' = Post(Post(inbox, i, LoadMessage), i, m)
        /\ sentLog' = Post(Post(sentLog, i, LoadMessage), i, m)
        /\ dispatched' = Append(dispatched, <<i, m.nonce>>)
  /\ nonce' = NextNonce(nonce)
  /\ started' = started + 1
  /\ UNCHANGED toolVars
  /\ UNCHANGED <<done, running, promises, replies, returned, thrown, host,
                 outcomes, received, run, firstResult>>

\* The listener of worker i can run: the synchronous part is over and a
\* reply of the worker is waiting.
CanHandle(i) ==
  /\ Alive
  /\ started = NumWorkers
  /\ replies[i] # <<>>

\* Listener, first branch: the reply carries a non-boolean error; it is
\* rebuilt as an Error and thrown out of the listener.
RecvError(i) ==
  /\ CanHandle(i)
  /\ LET r == Head(replies[i])
     IN /\ Throws(r)
        /\ thrown' = Append(thrown, [worker |-> i, name |-> r.error])
        /\ received' = Append(received, <<i, r>>)
  /\ replies' = [replies EXCEPT ![i] = Tail(@)]
  /\ UNCHANGED toolVars
  /\ UNCHANGED <<started, nonce, done, running, promises, inbox, returned,
                 host, outcomes, sentLog, dispatched, run, firstResult>>

\* Listener, second branch: done || result.done.
RecvDone(i) ==
  /\ CanHandle(i)
  /\ LET r == Head(replies[i])
     IN /\ ~Throws(r)
        /\ done \/ DoneTruthy(r)
        /\ promises' = Resolve(promises, i, r)
        /\ received' = Append(received, <<i, r>>)
  /\ done' = TRUE
  /\ running' = [running EXCEPT ![i] = FALSE]
  /\ inbox' = [j \in Workers |->
                 IF j \in CancelTargets(i) THEN Append(inbox[j], CancelMessage)
                 ELSE inbox[j]]
  /\ sentLog' = [j \in Workers |->
                   IF j \in CancelTargets(i)
                     THEN Append(sentLog[j], CancelMessage)
                     ELSE sentLog[j]]
  /\ replies' = [replies EXCEPT ![i] = Tail(@)]
  /\ UNCHANGED toolVars
  /\ UNCHANGED <<started, nonce, returned, thrown, host, outcomes,
                 dispatched, run, firstResult>>

\* Listener, last branch: postMessage() asks the same worker for another
\* attempt, however many were dispatched before.
RecvRetry(i) ==
  /\ CanHandle(i)
  /\ LET r == Head(replies[i])
         m == AttemptMessage(MessageNonce(nonce), FALSE)
     IN /\ ~Throws(r)
        /\ ~(done \/ DoneTruthy(r))
        /\ inbox' = Post(inbox, i, m)
        /\ sentLog' = Post(sentLog, i, m)
        /\ dispatched' = Append(dispatched, <<i, m.nonce>>)
        /\ received' = Append(received, <<i, r>>)
  /\ nonce' = NextNonce(nonce)
  /\ replies' = [replies EXCEPT ![i] = Tail(@)]
  /\ UNCHANGED toolVars
  /\ UNCHANGED <<started, done, running, promises, returned, thrown, host,
                 outcomes, run, firstResult>>

\* Promise.all(promises).then(...): reduce the results, throw result.error
\* when it is truthy, return the result otherwise.
Finish ==
  /\ Alive
  /\ started = NumWorkers
  /\ returned = NotSettled
  /\ AllResolved
  /\ LET result == Reduce(promises, NumWorkers)
     IN returned' = IF ErrorTruthy(result)
                      THEN [state |-> "rejected", value |-> result]
                      ELSE [state |-> "fulfilled", value |-> result]
  /\ UNCHANGED toolVars
  /\ UNCHANGED <<started, nonce, done, running, promises, inbox, replies,
                 thrown, host, outcomes, sentLog, dispatched, received, run,
                 firstResult>>

(****************************** workers ************************************)
\* The worker takes the {url} message of loadWorker; it posts nothing.
WorkerLoad(i) ==
  /\ Alive
  /\ inbox[i] # <<>>
  /\ "url" \in Head(inbox[i]).keys
  /\ inbox' = [inbox EXCEPT ![i] = Tail(@)]
  /\ UNCHANGED toolVars
  /\ UNCHANGED <<started, nonce, done, running, promises, replies, returned,
                 thrown, host, outcomes, sentLog, dispatched, received, run,
                 firstResult>>

\* The outcomes the orchestrator answers with another attempt (while no
\* worker is done): {done: false} and {error: true}.
Retried == {"fail", "errorTrue"}

\* The outcomes the attempt of nonce n can have: the one it had before, if
\* it was run before; otherwise any, those of Retried only while fewer than
\* MaxFailures nonces have such an outcome (the searches of the model are
\* those in which at most MaxFailures nonces fail).
PossibleKinds(n) ==
  IF outcomes[n] # "undecided" THEN {outcomes[n]}
  ELSE IF Cardinality({m \in Nonces : outcomes[m] \in Retried}) < MaxFailures
  THEN Kinds
  ELSE Kinds \ Retried

\* The worker takes an attempt message, runs the attempt of its nonce and
\* posts one reply. The outcome of an attempt depends on its nonce alone.
WorkerAttempt(i) ==
  /\ Alive
  /\ inbox[i] # <<>>
  /\ IsAttempt(Head(inbox[i]))
  /\ LET n == Head(inbox[i]).nonce
     IN \E kind \in PossibleKinds(n) :
          /\ outcomes' = [outcomes EXCEPT ![n] = kind]
          /\ replies' = [replies EXCEPT ![i] = Append(@, ReplyOf(kind, n))]
  /\ inbox' = [inbox EXCEPT ![i] = Tail(@)]
  /\ UNCHANGED toolVars
  /\ UNCHANGED <<started, nonce, done, running, promises, returned, thrown,
                 host, sentLog, dispatched, received, run, firstResult>>

\* The worker takes a cancel message; it posts nothing.
WorkerCancel(i) ==
  /\ Alive
  /\ inbox[i] # <<>>
  /\ Head(inbox[i]).cancel
  /\ inbox' = [inbox EXCEPT ![i] = Tail(@)]
  /\ UNCHANGED toolVars
  /\ UNCHANGED <<started, nonce, done, running, promises, replies, returned,
                 thrown, host, outcomes, sentLog, dispatched, received, run,
                 firstResult>>

Next ==
  \/ Start
  \/ \E i \in Workers : RecvError(i)
  \/ \E i \in Workers : RecvDone(i)
  \/ \E i \in Workers : RecvRetry(i)
  \/ Finish
  \/ \E i \in Workers : WorkerLoad(i)
  \/ \E i \in Workers : WorkerAttempt(i)
  \/ \E i \in Workers : WorkerCancel(i)

Spec == Init /\ [][Next]_vars

\* The event loop runs a listener for every delivered reply and the
\* continuation of a fulfilled Promise.all, and a worker thread takes the
\* messages posted to it: a step that can be taken is eventually taken.
SpecLive == Spec /\ WF_vars(Next)

\* randomizeRelics is invoked a second time with the same arguments and
\* fresh workers, once the first invocation has settled. The outcome of the
\* attempt of a nonce is the same in both invocations.
Rerun ==
  /\ Alive
  /\ run = 1
  /\ returned # NotSettled
  /\ run' = 2
  /\ firstResult' = returned
  /\ started' = 0
  /\ nonce' = NonceBase
  /\ done' = FALSE
  /\ running' = [i \in Workers |-> TRUE]
  /\ promises' = [i \in Workers |-> Unresolved]
  /\ inbox' = [i \in Workers |-> <<>>]
  /\ replies' = [i \in Workers |-> <<>>]
  /\ returned' = NotSettled
  /\ sentLog' = [i \in Workers |-> <<>>]
  /\ dispatched' = <<>>
  /\ received' = <<>>
  /\ UNCHANGED toolVars
  /\ UNCHANGED <<thrown, host, outcomes>>

NextRerun == Next \/ Rerun

SpecRerun == Init /\ [][NextRerun]_vars

(******************* solution minimizer and renderer ***********************)

\* relics.js is not part of the sources at hand: a stand-in table with the
\* shape relicFromAbility reads (name, ability), in table order.
Relics ==
  << [name |-> "Leap Stone", ability |-> "L"],
     [name |-> "Soul of Bat", ability |-> "B"],
     [name |-> "Form of Mist", ability |-> "M"],
     [name |-> "Jewel of Open", ability |-> "J"] >>

Ability(k) == Relics[k].ability

\* relics.filter(relic => relic.ability === ability).pop()
RelicFromAbility(ability) ==
  LET matching == SelectSeq(Relics, LAMBDA relic : relic.ability = ability)
  IN matching[Len(matching)]

\* Array(level).fill(' ').join('')
RECURSIVE indent(_)
indent(level) == IF level <= 0 THEN "" ELSE " " \o indent(level - 1)

\* The accumulator minifySolution starts from: no alternative seen yet.
NoSolution == [depth |-> 0, weight |-> 0]

\* Stable insertion of x into a list sorted by depth.
RECURSIVE InsertByDepth(_, _, _)
InsertByDepth(sorted, x, descending) ==
  IF sorted = <<>> THEN <<x>>
  ELSE IF (IF descending THEN x.depth > Head(sorted).depth
                         ELSE x.depth < Head(sorted).depth)
       THEN <<x>> \o sorted
       ELSE <<Head(sorted)>> \o InsertByDepth(Tail(sorted), x, descending)

\* Array.prototype.sort with a comparator on depth (stable).
RECURSIVE SortByDepth(_, _)
SortByDepth(nodes, descending) ==
  IF nodes = <<>> THEN <<>>
  ELSE InsertByDepth(SortByDepth(SubSeq(nodes, 1, Len(nodes) - 1), descending),
                     nodes[Len(nodes)], descending)

\* Mutation: every requirement weighs one.
CountDepths(requirements, k) == k
\* requirements.reduce((weight, requirement) => weight + requirement.depth, 0)
RECURSIVE SumDepths(_, _)
SumDepths(requirements, k) ==
  IF k = 0 THEN 0 ELSE SumDepths(requirements, k - 1) + requirements[k].depth

\* weight / requirements.length, kept as a fraction.
Average(weight, count) == [num |-> weight, den |-> count]
AvgLess(a, b) == a.num * b.den < b.num * a.den

\* Mutation: a requirement is as deep as the solution selected for it.
SameDepth(solution) == solution.depth
\* The depth of a requirement that has locks.
NestedDepth(solution) == 1 + solution.depth

\* Mutation: the comparison stops at the weight.
ReplacesIgnoringAvg(solution, min) ==
  \/ min.depth = 0
  \/ solution.depth < min.depth
  \/ solution.depth = min.depth /\ solution.weight < min.weight
\* solution.depth < min.depth || ... : the candidate replaces the minimum.
Replaces(solution, min) ==
  \/ min.depth = 0
  \/ solution.depth < min.depth
  \/ solution.depth = min.depth /\ solution.weight < min.weight
  \/ /\ solution.depth = min.depth
     /\ solution.weight = min.weight
     /\ "avg" \in DOMAIN min
     /\ AvgLess(solution.avg, min.avg)

RECURSIVE Requirement(_), Candidate(_), minifySolution(_, _), ReduceLocks(_, _, _)
\* The callback mapped over a lock's nodes.
Requirement(node) ==
  IF "locks" \in DOMAIN node
  THEN LET solution == ReduceLocks(node.locks, Len(node.locks), NoSolution)
       IN [item |-> node.item, depth |-> NestedDepth(solution),
           solution |-> solution]
  ELSE [item |-> node.item, depth |-> 1]

\* lock.map(...) of minifySolution, over the first k nodes of the lock.
RECURSIVE MapRequirements(_, _)
MapRequirements(lock, k) ==
  IF k = 0 THEN <<>>
  ELSE Append(MapRequirements(lock, k - 1), Requirement(lock[k]))

\* The scored solution minifySolution builds for one lock.
Candidate(lock) ==
  LET requirements == MapRequirements(lock, Len(lock))
      sorted == SortByDepth(requirements, FALSE)
      weight == SumDepths(requirements, Len(requirements))
  IN [depth |-> sorted[Len(sorted)].depth,
      weight |-> weight,
      avg |-> Average(weight, Len(requirements)),
      requirements |-> requirements]

minifySolution(min, lock) ==
  LET solution == Candidate(lock)
  IN IF Replaces(solution, min) THEN solution ELSE min

\* locks.reduce(minifySolution, {depth: 0, weight: 0}), over the first k locks.
ReduceLocks(locks, k, initial) ==
  IF k = 0 THEN initial
  ELSE minifySolution(ReduceLocks(locks, k - 1, initial), locks[k])

RECURSIVE simplifySolution(_)
simplifySolution(node) ==
  IF "solution" \in DOMAIN node
  THEN [item |-> node.item,
        solution |-> [k \in DOMAIN node.solution.requirements |->
                        simplifySolution(node.solution.requirements[k])]]
  ELSE [item |-> node.item]

\* new Map()
EmptyMap == [x \in {} |-> {}]

RECURSIVE collectAbilities(_, _), CollectRequirements(_, _, _, _)
\* The forEach of collectAbilities from requirement k on.
CollectRequirements(nodes, k, abilities, map) ==
  IF k > Len(nodes) THEN [abilities |-> abilities, map |-> map]
  ELSE LET sub == collectAbilities(nodes[k], map)
       IN CollectRequirements(nodes, k + 1,
            abilities \cup {nodes[k].item} \cup sub.abilities, sub.map)

collectAbilities(node, map) ==
  IF node.item \in DOMAIN map
  THEN [abilities |-> map[node.item], map |-> map]
  ELSE LET all == IF "solution" \in DOMAIN node
                  THEN CollectRequirements(node.solution.requirements, 1,
                                           {node.item}, map)
                  ELSE [abilities |-> {node.item}, map |-> map]
       IN [abilities |-> all.abilities,
           map |-> (node.item :> all.abilities) @@ all.map]

\* Mutation: the splice removes the first node of the list.
RemoveFirst(nodes, j) == Tail(nodes)
\* nodes.splice(j, 1)
RemoveAt(nodes, j) == SubSeq(nodes, 1, j - 1) \o SubSeq(nodes, j + 1, Len(nodes))

\* Mutation: sort ascending by depth.
SortsAscending == FALSE
\* nodes.sort((a, b) => b.depth - a.depth)
SortsDescending == TRUE

RECURSIVE pruneSubsets(_, _), PruneLoop(_, _, _, _), FilterLater(_, _, _, _)
\* The inner loop over j, for fixed i.
FilterLater(nodes, j, abilities, map) ==
  IF j > Len(nodes) THEN [nodes |-> nodes, map |-> map]
  ELSE LET curr == collectAbilities(nodes[j], map)
       IN IF curr.abilities \subseteq abilities
          THEN FilterLater(RemoveAt(nodes, j), j, abilities, curr.map)
          ELSE FilterLater(nodes, j + 1, abilities, curr.map)

\* The outer loop over i.
PruneLoop(nodes, i, abilities, map) ==
  IF i > Len(nodes) THEN [nodes |-> nodes, map |-> map]
  ELSE LET sub == pruneSubsets(nodes[i], map)
           own == collectAbilities(sub.node, sub.map)
           seen == abilities \cup own.abilities
           rest == FilterLater([nodes EXCEPT ![i] = sub.node], i + 1, seen,
                               own.map)
       IN PruneLoop(rest.nodes, i + 1, seen, rest.map)

\* pruneSubsets works in place: the node it leaves, and the map it filled.
pruneSubsets(node, map) ==
  IF "solution" \in DOMAIN node
  THEN LET nodes == SortByDepth(node.solution.requirements, SortsDescending)
           pruned == PruneLoop(nodes, 1, {}, map)
       IN [node |-> [node EXCEPT !.solution.requirements = pruned.nodes],
           map |-> pruned.map]
  ELSE [node |-> node, map |-> map]

\* node.item; undefined on a node that has no such property.
ItemOf(node) == IF "item" \in DOMAIN node THEN node.item ELSE "undefined"

\* Mutation: the loop follows the first child whenever there is one.
ChainFollowsFirstChild(curr) ==
  "solution" \in DOMAIN curr /\ Len(curr.solution) >= 1
\* Mutation: the loop is never entered.
ChainNeverContinues(curr) == FALSE
\* curr.solution && curr.solution.length === 1
ChainContinues(curr) == "solution" \in DOMAIN curr /\ Len(curr.solution) = 1

RECURSIVE collapseSolution(_), CollapseLoop(_, _)
\* The while loop and what follows it.
CollapseLoop(items, curr) ==
  IF ChainContinues(curr)
  THEN CollapseLoop(Append(items, ItemOf(curr)), curr.solution[1])
  ELSE IF "solution" \in DOMAIN curr
       THEN [items |-> Append(items, ItemOf(curr)),
             solution |-> [k \in DOMAIN curr.solution |->
                             collapseSolution(curr.solution[k])]]
       ELSE [items |-> Append(items, ItemOf(curr))]

collapseSolution(node) == CollapseLoop(<<>>, node)

\* array.join(separator)
RECURSIVE Join(_, _)
Join(strings, separator) ==
  IF strings = <<>> THEN ""
  ELSE IF Len(strings) = 1 THEN strings[1]
       ELSE strings[1] \o separator \o Join(Tail(strings), separator)

\* The concatenation of a list of lists of lines.
RECURSIVE Flatten(_)
Flatten(lists) == IF lists = <<>> THEN <<>> ELSE Head(lists) \o Flatten(Tail(lists))

\* Mutation: the width of the whole list of names.
FullWidth(names) == Len(Join(names, "   "))
\* names.slice(0, -1).concat(['']).join('   ').length
NamesWidth(names) ==
  Len(Join(Append(SubSeq(names, 1, Len(names) - 1), ""), "   "))

\* Mutation: no prefix on any line.
NoPrefix(sub) == ""
\* (sub ? '^ ' : '')
Prefix(sub) == IF sub THEN "^ " ELSE ""

\* Mutation: the children of a prefixed node are not shifted.
NoSubWidth(sub) == 0
\* if (sub) indentLevel += 2
SubWidth(sub) == IF sub THEN 2 ELSE 0

RECURSIVE renderNode(_, _, _)
renderNode(indentLevel, sub, node) ==
  LET names == [k \in DOMAIN node.items |-> RelicFromAbility(node.items[k]).name]
      line == indent(indentLevel) \o Prefix(sub) \o Join(names, " < ")
  IN IF "solution" \in DOMAIN node
     THEN LET level == indentLevel + SubWidth(sub) + NamesWidth(names)
          IN <<line>> \o Flatten([k \in DOMAIN node.solution |->
                                    renderNode(level, TRUE, node.solution[k])])
     ELSE <<line>>

\* Every stage of renderSolutions(solutions).
renderSolutions(input) ==
  LET minified == ReduceLocks(input, Len(input), NoSolution)
      pruned == [k \in DOMAIN minified.requirements |->
                   pruneSubsets(minified.requirements[k], EmptyMap).node]
      simplified == [k \in DOMAIN pruned |-> simplifySolution(pruned[k])]
      collapsed == [k \in DOMAIN simplified |-> collapseSolution(simplified[k])]
  IN [minified |-> minified, pruned |-> pruned, simplified |-> simplified,
      collapsed |-> collapsed,
      lines |-> Flatten([k \in DOMAIN collapsed |->
                           renderNode(0, FALSE, collapsed[k])])]

(********* inputs of renderSolutions: proofs of dependency graphs **********)
\* Largest number of alternative locks of one item, and of the top level.
MaxLocks == 2

NumRelics == Len(Relics)

\* The locks item k may have (k = NumRelics + 1: the top level): non-empty
\* sets of at most size earlier items.
LockChoices(k, size) ==
  {lock \in SUBSET (1..(k - 1)) : lock # {} /\ Cardinality(lock) <= size}

\* A set of indexes as an ascending list.
RECURSIVE Ascending(_)
Ascending(set) ==
  IF set = {} THEN <<>>
  ELSE LET least == CHOOSE x \in set : \A y \in set : x <= y
       IN <<least>> \o Ascending(set \ {least})

\* Lists of exactly length locks.
RECURSIVE LockLists(_, _)
LockLists(choices, length) ==
  IF length = 0 THEN {<<>>}
  ELSE {Append(list, lock) : list \in LockLists(choices, length - 1),
                             lock \in choices}

DistinctLocks(list) == \A a, b \in DOMAIN list : a # b => list[a] # list[b]

\* Lists of one to count different locks.
ListsOf(choices, count) ==
  {list \in UNION {LockLists(choices, n) : n \in 1..count} :
     DistinctLocks(list)}

\* The lists of alternative locks item k may have.
Alternatives(k, count, size) == ListsOf(LockChoices(k, size), count)

\* Dependency graphs over the first k items: for every item its locks, none
\* (the empty list) for an item that needs nothing.
RECURSIVE Graphs(_, _, _)
Graphs(k, count, size) ==
  IF k = 0 THEN {<<>>}
  ELSE {Append(graph, locks) : graph \in Graphs(k - 1, count, size),
                               locks \in Alternatives(k, count, size) \cup {<<>>}}

\* The proof nodes the search hands over for a list of locks: a node carries
\* the locks of its item, so equal items have equal subtrees.
RECURSIVE RawNode(_, _), RawLocks(_, _)
RawLocks(locks, graph) ==
  [a \in DOMAIN locks |->
     LET members == Ascending(locks[a])
     IN [m \in DOMAIN members |-> RawNode(members[m], graph)]]
RawNode(k, graph) ==
  IF graph[k] = <<>> THEN [item |-> Ability(k)]
  ELSE [item |-> Ability(k), locks |-> RawLocks(graph[k], graph)]

\* Every graph over all relics but the last, with every top level over them.
DeepInputs ==
  {RawLocks(locks, graph) :
     locks \in Alternatives(NumRelics, MaxLocks, NumRelics),
     graph \in Graphs(NumRelics - 1, MaxLocks, NumRelics)}

\* The locks of several relics.
SeveralRelics ==
  {lock \in LockChoices(NumRelics + 1, NumRelics) : Cardinality(lock) >= 2}

\* Every top level of locks of several relics, each relic needing at most
\* one other.
WideInputs ==
  {RawLocks(locks, graph) :
     locks \in ListsOf(SeveralRelics, MaxLocks),
     graph \in Graphs(NumRelics, 1, 1)}

\* Every graph over all relics in which a relic has at most one lock, under
\* one top level lock.
SingleLockInputs ==
  {RawLocks(locks, graph) :
     locks \in Alternatives(NumRelics + 1, 1, NumRelics),
     graph \in Graphs(NumRelics, 1, NumRelics)}

Inputs == DeepInputs \cup WideInputs \cup SingleLockInputs

\* The search handed over a proof; the orchestrator is not involved.
InitRender ==
  /\ NotStarted
  /\ host = "node"
  /\ solutions \in Inputs
  /\ rendering = NotRendered
  /\ NodeIdle
  /\ LocationsIdle
  /\ CliIdle

\* renderSolutions(solutions)
RenderSolutions ==
  /\ solutions # <<>>
  /\ rendering = NotRendered
  /\ rendering' = renderSolutions(solutions)
  /\ UNCHANGED solutions
  /\ UNCHANGED <<orchestratorVars, nodeVars, locationVars, cliVars>>

NextRender == RenderSolutions

SpecRender == InitRender /\ [][NextRender]_vars

Rendered == rendering # NotRendered

(************** inputs of renderNode: trees of compound nodes **************)
\* Largest number of nodes of a tree handed to renderNode.
MaxNodes == 3
\* Largest number of tokens of one compound node.
MaxTokens == 2

\* The lists of tokens of a compound node: runs of the relic table.
ItemLists ==
  {[k \in 1..span[2] |-> Ability(span[1] + k - 1)] :
     span \in {r \in (1..NumRelics) \X (1..MaxTokens) :
                r[1] + r[2] - 1 <= NumRelics}}

\* The trees of exactly size nodes, and the lists of trees of that many.
RECURSIVE TreesOfSize(_), ForestsOfSize(_)
ForestsOfSize(size) ==
  IF size = 0 THEN {<<>>}
  ELSE UNION {{<<first>> \o others : first \in TreesOfSize(k),
                                     others \in ForestsOfSize(size - k)} :
              k \in 1..size}
TreesOfSize(size) ==
  {IF children = <<>> THEN [items |-> items]
   ELSE [items |-> items, solution |-> children] :
     items \in ItemLists, children \in ForestsOfSize(size - 1)}

Trees == UNION {TreesOfSize(size) : size \in 1..MaxNodes}

\* A compound tree is at hand; nothing else is going on.
InitRenderNode ==
  /\ NotStarted
  /\ host = "node"
  /\ RenderIdle
  /\ LocationsIdle
  /\ CliIdle
  /\ tree \in Trees
  /\ treeLines = <<>>

\* render = renderNode.bind(null, 0, false), applied to the tree.
RenderNode ==
  /\ tree.items # <<>>
  /\ treeLines = <<>>
  /\ treeLines' = renderNode(0, FALSE, tree)
  /\ UNCHANGED tree
  /\ UNCHANGED <<orchestratorVars, renderVars, locationVars, cliVars>>

NextRenderNode == RenderNode

SpecRenderNode == InitRenderNode /\ [][NextRenderNode]_vars

(************************ relic locations **********************************)
\* Number of locations of the extension table.
NumExtensions == 4

\* constants.EXTENSION
GUARDED == "guarded"
EQUIPMENT == "equipment"

\* extension.js is not part of the sources at hand: the names of stand-in
\* locations, each the item it replaces.
ExtensionNames ==
  <<"Crystal cloak", "Mormegil", "Dark Blade", "Ring of Arcana", "Trio",
    "Holy mail">>

\* The extension tables: every location belongs to one extension.
ExtensionTables ==
  {[k \in 1..NumExtensions |-> [name |-> ExtensionNames[k], extension |-> of[k]]] :
     of \in [1..NumExtensions -> {GUARDED, EQUIPMENT}]}

\* The locations a preset holds a list of locks for: none, the first base
\* location and one extension location, every location.
LockedLocations ==
  {{}, {Relics[1].ability, ExtensionNames[2]},
   {Relics[k].ability : k \in DOMAIN Relics}
     \cup {ExtensionNames[k] : k \in 1..NumExtensions}}

\* options.relicLocations of a preset: without extension, or with one, and
\* its lists of locks; keys are the names of its properties.
RelicLocationOptions ==
  {[keys |-> locked, extension |-> "undefined"] : locked \in LockedLocations}
    \cup {[keys |-> locked \cup {"extension"}, extension |-> mode] :
            locked \in LockedLocations, mode \in {GUARDED, EQUIPMENT}}

\* Mutation: a break after the EQUIPMENT case.
HelpExtensionsWithBreak(relicLocations) ==
  IF "extension" \in relicLocations.keys
  THEN CASE relicLocations.extension = EQUIPMENT -> <<EQUIPMENT>>
         [] relicLocations.extension = GUARDED -> <<GUARDED>>
         [] OTHER -> <<>>
  ELSE <<>>
\* presetMetaHelp: the extensions its switch pushes, falling through.
HelpExtensions(relicLocations) ==
  IF "extension" \in relicLocations.keys
  THEN CASE relicLocations.extension = EQUIPMENT -> <<EQUIPMENT, GUARDED>>
         [] relicLocations.extension = GUARDED -> <<GUARDED>>
         [] OTHER -> <<>>
  ELSE <<>>

Contains(list, x) == \E k \in DOMAIN list : list[k] = x

\* !relic.extension
NoExtensionValue(location) ==
  \/ "extension" \notin DOMAIN location
  \/ location.extension \in {"", "undefined"}

\* The id presetMetaHelp gives a location.
HelpId(location) ==
  IF "ability" \in DOMAIN location THEN location.ability ELSE location.name

\* presetMetaHelp: the ids of the locations it lists.
presetMetaHelp(relicLocations) ==
  LET wanted == HelpExtensions(relicLocations)
      base == SelectSeq(Relics, NoExtensionValue)
      extendedLocations ==
        SelectSeq(extensions, LAMBDA location : Contains(wanted, location.extension))
      locations == base \o extendedLocations
  IN [k \in DOMAIN locations |-> HelpId(locations[k])]

\* optionsToString: whether its filter keeps a location.
StringKeeps(relicLocations, location) ==
  CASE relicLocations.extension = EQUIPMENT ->
         \/ "extension" \notin DOMAIN location
         \/ Contains(<<EQUIPMENT, GUARDED>>, location.extension)
    [] relicLocations.extension = GUARDED ->
         \/ "extension" \notin DOMAIN location
         \/ Contains(<<GUARDED>>, location.extension)
    [] OTHER -> "extension" \notin DOMAIN location

\* The name optionsToString gives a location.
StringId(location) ==
  IF "ability" \in DOMAIN location THEN location.ability ELSE location.name

\* optionsToString: the locations its filter keeps, by the name map gives
\* them.
StringLocations(relicLocations) ==
  LET locations ==
        SelectSeq(Relics \o extensions,
                  LAMBDA location : StringKeeps(relicLocations, location))
  IN [k \in DOMAIN locations |-> StringId(locations[k])]

\* options.relicLocations[location]: the preset holds a list of locks for
\* the location (a list is truthy, a missing property is not).
HasLocks(relicLocations, location) == location \in relicLocations.keys

\* optionsToString: the locations it writes a lock for, in order: those of
\* the kept locations the options hold a list of locks for.
StringLocks(relicLocations) ==
  SelectSeq(StringLocations(relicLocations),
            LAMBDA location : HasLocks(relicLocations, location))

\* The string optionsToString builds from the options: "r", the extension
\* if the options name one, and a lock for each of the locations above.
\* The lists of locks themselves are not modelled: a location has the same
\* list in every options object of the model.
StringOf(relicLocations) ==
  [preset |-> "none",
   extension |-> IF "extension" \in relicLocations.keys
                 THEN relicLocations.extension ELSE "none",
   locations |-> StringLocks(relicLocations)]

\* optionsToString(preset.options(), true), relicLocations being replaced
\* by true for the preset safe.
PresetString(preset) ==
  IF preset.id = "safe" THEN PlainString ELSE StringOf(preset.relicLocations)

\* The string "p:" + id.
PresetReference(id) == [preset |-> id, extension |-> "none", locations |-> <<>>]

\* optionsToString(options, disableRecurse): the string built from the
\* options, replaced by the reference to the last loaded preset whose
\* options give the same string, unless disableRecurse.
optionsToString(relicLocations, disableRecurse) ==
  LET randomize == StringOf(relicLocations)
      same == SelectSeq(presets, LAMBDA preset : PresetString(preset) = randomize)
  IN IF ~disableRecurse /\ same # <<>>
     THEN PresetReference(same[Len(same)].id)
     ELSE randomize

\* build/presets is not part of the sources at hand: no preset is loaded,
\* or the preset safe, or one preset with any of the options of the model.
PresetLists ==
  {<<>>, <<[id |-> "safe", relicLocations |-> [keys |-> {}, extension |-> "undefined"]]>>}
    \cup {<<[id |-> "locked", relicLocations |-> o]>> : o \in RelicLocationOptions}

\* A preset and the extension table are loaded.
InitLocations ==
  /\ NotStarted
  /\ host = "node"
  /\ RenderIdle
  /\ NodeIdle
  /\ CliIdle
  /\ extensions \in ExtensionTables
  /\ options \in [relicLocations : RelicLocationOptions]
  /\ presets \in PresetLists
  /\ helpLocations = <<>>
  /\ keptLocations = <<>>
  /\ locationString = PlainString

\* presetMetaHelp(preset)
PresetMetaHelp ==
  /\ extensions # <<>>
  /\ helpLocations = <<>>
  /\ helpLocations' = presetMetaHelp(options.relicLocations)
  /\ UNCHANGED <<extensions, options, presets, keptLocations, locationString>>
  /\ UNCHANGED <<orchestratorVars, renderVars, nodeVars, cliVars>>

\* optionsToString(options)
OptionsToString ==
  /\ extensions # <<>>
  /\ keptLocations = <<>>
  /\ keptLocations' = StringLocations(options.relicLocations)
  /\ locationString' = optionsToString(options.relicLocations, FALSE)
  /\ UNCHANGED <<extensions, options, presets, helpLocations>>
  /\ UNCHANGED <<orchestratorVars, renderVars, nodeVars, cliVars>>

NextLocations == PresetMetaHelp \/ OptionsToString

SpecLocations == InitLocations /\ [][NextLocations]_vars

(**************************** command line *********************************)
Max(a, b) == IF a >= b THEN a ELSE b

\* Math.floor(x / 4) for a non-negative integer x.
FloorQuarter(x) == x \div 4

\* Mutation: three quarters of the cores, without the lower limit.
ThreeQuartersOfCores(count) == FloorQuarter(3 * count)
\* Math.max(Math.floor(3 * cores / 4), 1)
workerCountFromCores(count) == Max(FloorQuarter(3 * count), 1)

\* The machine has any number of cores; os.cpus() may report none.
InitCores ==
  /\ NotStarted
  /\ host = "node"
  /\ RenderIdle
  /\ NodeIdle
  /\ LocationsIdle
  /\ cores \in 0..MaxCores
  /\ workerCount = NoCount
  /\ RunIdle

\* const workers = Array(util.workerCountFromCores(cores))
CountWorkers ==
  /\ workerCount = NoCount
  /\ workerCount' = workerCountFromCores(cores)
  /\ UNCHANGED <<cores, runVars>>
  /\ UNCHANGED <<orchestratorVars, renderVars, nodeVars, locationVars>>

NextCores == CountWorkers

SpecCores == InitCores /\ [][NextCores]_vars

(*********************** the function randomize ****************************)
\* Largest number of failing attempts of a relic search: the attempts of
\* the nonces below NonceBase + failingAttempts fail, every other succeeds
\* (the outcome of an attempt is a function of version, options, seed and
\* nonce).
MaxRetries == 3
\* Largest checksum of the model (check.sum() has three hexadecimal digits).
MaxChecksum == 2

\* The nonces the command line salts its random streams with.
WriteNonce == 0
ItemsNonce == 1
MusicNonce == 2

\* The machines the command line is run on, by their number of cores.
Machines == {1, 4, 12}
Checksums == 0..MaxChecksum
Jobs ==
  [version : {"1.0"}, options : {"p:safe", "p:adventure"}, seed : {"1", "12"}]

\* What the argument parsing leaves in haveChecksum and expectChecksum:
\* nothing; --expect-checksum (a number, haveChecksum set); a url, whose
\* checksum field is parsed with parseInt and sets haveChecksum when truthy.
ChecksumArguments ==
  {[have |-> FALSE, expect |-> Undefined]}
    \cup {[have |-> TRUE, expect |-> Num(n)] : n \in Checksums}
    \cup {[have |-> FALSE, expect |-> NaN], [have |-> FALSE, expect |-> Num(0)]}
    \cup {[have |-> TRUE, expect |-> Num(n)] : n \in Checksums \ {0}}

\* JavaScript truthiness of a number or undefined.
Truthy(v) == v.type = "number" /\ v.value # 0
\* Mutation: no two values differ.
NeverDiffers(a, b) == FALSE
\* a !== b
StrictNotEqual(a, b) ==
  \/ a.type # b.type
  \/ a.type = "NaN"
  \/ a.type = "number" /\ a.value # b.value

Digits == <<"0", "1", "2", "3", "4", "5", "6", "7", "8", "9">>
\* JSON.stringify of a non-negative integer.
RECURSIVE NumberToString(_)
NumberToString(n) ==
  IF n < 10 THEN Digits[n + 1]
  ELSE NumberToString(n \div 10) \o Digits[(n % 10) + 1]
\* JSON.stringify of a string without characters to escape.
Quoted(string) == "\"" \o string \o "\""

\* nonce || 0
OrZero(v) == IF Truthy(v) THEN v ELSE Num(0)

\* Mutation: the nonce is left out of the salt.
SaltWithoutNonce(version, optionString, seed, n) ==
  "{\"version\":" \o Quoted(version) \o ",\"options\":" \o Quoted(optionString)
    \o ",\"seed\":" \o Quoted(seed) \o "}"
\* saltSeed(version, options, seed, nonce), for the option string of options.
saltSeed(version, optionString, seed, n) ==
  "{\"version\":" \o Quoted(version) \o ",\"options\":" \o Quoted(optionString)
    \o ",\"seed\":" \o Quoted(seed)
    \o ",\"nonce\":" \o NumberToString(OrZero(n).value) \o "}"

\* One more salt of the run.
Salted(use, n) ==
  [use |-> use, nonce |-> n,
   salt |-> saltSeed(job.version, job.options, job.seed, Num(n))]

\* The salts of the attempts of a relic search, the first count of them:
\* postMessage hands out the nonce base, base + 1, ...
RECURSIVE SearchSalts(_)
SearchSalts(count) ==
  IF count = 0 THEN <<>>
  ELSE Append(SearchSalts(count - 1), Salted("search", NonceBase + count - 1))

\* The command line was parsed; randomize is about to run (seed generation
\* is not disabled).
InitRandomize ==
  /\ NotStarted
  /\ host = "node"
  /\ RenderIdle
  /\ NodeIdle
  /\ LocationsIdle
  /\ cores \in Machines
  /\ workerCount = NoCount
  /\ argv \in [inBin : BOOLEAN, outBin : BOOLEAN]
  /\ job \in Jobs
  /\ failingAttempts \in 0..MaxRetries
  /\ \E given \in ChecksumArguments :
       /\ haveChecksum = given.have
       /\ expectChecksum = given.expect
  /\ stage = "prepare"
  /\ completed = <<>>
  /\ failure = "none"
  /\ salts = <<>>
  /\ checksum = Undefined
  /\ exitStatus = <<>>
  /\ written = {}

\* The stage ends the process: console.error(...), process.exit(1).
Exit(failed) ==
  /\ failure' = failed
  /\ exitStatus' = Append(exitStatus, 1)
  /\ stage' = "exited"
  /\ UNCHANGED completed

\* The stage succeeded: randomize goes on with the next one.
Succeed(next) ==
  /\ completed' = Append(completed, stage)
  /\ stage' = next
  /\ UNCHANGED <<failure, exitStatus>>

\* check.apply(data) writes to the file check was made with: the input
\* file when randomizing in place, none otherwise.
Apply == IF argv.inBin /\ ~argv.outBin THEN written \cup {"inBin"} ELSE written

\* A statement throws before or while check writes: fs.writeSync may have
\* written part of the data to the file by then, or nothing.
ApplyInterrupted ==
  \E wrote \in BOOLEAN : written' = IF wrote THEN Apply ELSE written

\* Preset.options(options), placePlannedItems(applied), and the workers
\* are made: const workers = Array(util.workerCountFromCores(cores)), then
\* new Worker for each of them. Preset.options and placePlannedItems may
\* throw, before the array is made; new Worker may throw, after it.
Prepare ==
  /\ stage = "prepare"
  /\ \E reached \in {"options", "planned", "workers", "end"} :
       /\ workerCount' = IF reached \in {"workers", "end"}
                         THEN workerCountFromCores(cores)
                         ELSE workerCount
       /\ IF reached = "end"
          THEN /\ stage' = "search"
               /\ UNCHANGED <<completed, failure, exitStatus, written>>
          ELSE /\ Exit("prepare")
               /\ UNCHANGED written
  /\ UNCHANGED <<cores, argv, job, failingAttempts, haveChecksum, expectChecksum, salts, checksum>>
  /\ UNCHANGED <<orchestratorVars, renderVars, nodeVars, locationVars>>

\* The salts of the given use among the salts of the run.
SaltsOf(use) == SelectSeq(salts, LAMBDA salted : salted.use = use)

\* util.randomizeRelics(..., workers, 3) is called: every worker is posted
\* one attempt, the promise is returned and randomize is suspended at the
\* await.
RelicSearch ==
  /\ stage = "search"
  /\ SaltsOf("search") = <<>>
  /\ salts' = salts \o SearchSalts(workerCount)
  /\ UNCHANGED <<cores, workerCount, argv, job, failingAttempts, haveChecksum, expectChecksum,
                 stage, completed, failure, checksum, exitStatus, written>>
  /\ UNCHANGED <<orchestratorVars, renderVars, nodeVars, locationVars>>

\* The attempts posted so far that fail.
FailedSoFar ==
  IF Len(SaltsOf("search")) < failingAttempts
  THEN Len(SaltsOf("search")) ELSE failingAttempts

\* While randomize is suspended, the listener of a worker receives the
\* failure of an attempt that was not answered yet and posts the worker
\* another attempt, with the next nonce.
SearchRetry ==
  /\ stage = "search"
  /\ SaltsOf("search") # <<>>
  /\ Len(SaltsOf("search")) - workerCount < FailedSoFar
  /\ salts' = Append(salts, Salted("search", NonceBase + Len(SaltsOf("search"))))
  /\ UNCHANGED <<cores, workerCount, argv, job, failingAttempts, haveChecksum,
                 expectChecksum, stage, completed, failure, checksum,
                 exitStatus, written>>
  /\ UNCHANGED <<orchestratorVars, renderVars, nodeVars, locationVars>>

\* The search ends: an attempt that succeeds was posted and the promise is
\* fulfilled, randomize resuming after the await; or a worker replies with
\* an error and the promise is rejected (the catch exits) or the listener
\* throws (an uncaught exception, which ends the process with status 1).
SearchSettled ==
  /\ stage = "search"
  /\ SaltsOf("search") # <<>>
  /\ \E outcome \in {"fulfilled", "rejected", "uncaught"} :
       IF outcome = "fulfilled"
       THEN /\ Len(SaltsOf("search")) > failingAttempts
            /\ Succeed("write")
            /\ UNCHANGED written
       ELSE Exit("search") /\ UNCHANGED written
  /\ UNCHANGED <<cores, workerCount, argv, job, failingAttempts, haveChecksum,
                 expectChecksum, salts, checksum>>
  /\ UNCHANGED <<orchestratorVars, renderVars, nodeVars, locationVars>>

\* rng = seedrandom(saltSeed(version, options, seed, 0)),
\* writeRelics(rng, applied, result), check.apply(result.data); writeRelics
\* may throw, and so may check.apply, with part of the data written.
WriteRelics ==
  /\ stage = "write"
  /\ salts' = Append(salts, Salted("write", WriteNonce))
  /\ \E ok \in BOOLEAN :
       IF ok THEN Succeed("items") /\ written' = Apply
       ELSE Exit("write") /\ ApplyInterrupted
  /\ UNCHANGED <<cores, workerCount, argv, job, failingAttempts, haveChecksum, expectChecksum,
                 checksum>>
  /\ UNCHANGED <<orchestratorVars, renderVars, nodeVars, locationVars>>

\* util.randomizeItems(..., new Worker('./worker.js'), 1, result.items) is
\* called: the items message is posted with nonce 1 and randomize is
\* suspended at the await; or nothing is posted and the catch exits: new
\* Worker or loadWorker throws, or worker.postMessage throws in the
\* executor of the promise, which rejects it.
RandomizeItems ==
  /\ stage = "items"
  /\ SaltsOf("items") = <<>>
  /\ \E posted \in BOOLEAN :
       IF posted
       THEN /\ salts' = Append(salts, Salted("items", ItemsNonce))
            /\ UNCHANGED <<stage, completed, failure, exitStatus>>
       ELSE /\ Exit("items")
            /\ UNCHANGED salts
  /\ UNCHANGED <<cores, workerCount, argv, job, failingAttempts, haveChecksum, expectChecksum,
                 checksum, written>>
  /\ UNCHANGED <<orchestratorVars, renderVars, nodeVars, locationVars>>

\* The worker answered: the promise is fulfilled and randomize resumes with
\* check.apply(result.data), or it is rejected and the catch exits; the
\* catch exits as well when check.apply throws, with part of the data
\* written.
ItemsSettled ==
  /\ stage = "items"
  /\ SaltsOf("items") # <<>>
  /\ \E ok \in BOOLEAN :
       IF ok THEN Succeed("music") /\ written' = Apply
       ELSE Exit("items") /\ ApplyInterrupted
  /\ UNCHANGED <<cores, workerCount, argv, job, failingAttempts, haveChecksum, expectChecksum,
                 salts, checksum>>
  /\ UNCHANGED <<orchestratorVars, renderVars, nodeVars, locationVars>>

\* rng = seedrandom(saltSeed(version, options, seed, 2)),
\* randomizeMusic(rng, applied), check.apply(result); randomizeMusic may
\* throw, and so may check.apply, with part of the data written.
RandomizeMusic ==
  /\ stage = "music"
  /\ salts' = Append(salts, Salted("music", MusicNonce))
  /\ \E ok \in BOOLEAN :
       IF ok THEN Succeed("text") /\ written' = Apply
       ELSE Exit("music") /\ ApplyInterrupted
  /\ UNCHANGED <<cores, workerCount, argv, job, failingAttempts, haveChecksum, expectChecksum,
                 checksum>>
  /\ UNCHANGED <<orchestratorVars, renderVars, nodeVars, locationVars>>

\* A statement outside the try blocks throws: the promise of the async
\* function randomize is rejected and nothing handles it, which ends the
\* process with status 1 (node 15 and later).
Rejected(failed) ==
  /\ failure' = failed
  /\ exitStatus' = Append(exitStatus, 1)
  /\ stage' = "rejected"

\* util.setSeedText(check, seed, options.preset): when randomizing in
\* place, check writes to the input file with fs.writeSync, which may
\* throw, with part of the text written; otherwise it only records the
\* writes.
SetSeedText ==
  /\ stage = "text"
  /\ \E ok \in BOOLEAN :
       IF ok \/ ~(argv.inBin /\ ~argv.outBin)
       THEN Succeed("checksum") /\ written' = Apply
       ELSE Rejected("text") /\ ApplyInterrupted /\ UNCHANGED completed
  /\ UNCHANGED <<cores, workerCount, argv, job, failingAttempts, haveChecksum,
                 expectChecksum, salts, checksum>>
  /\ UNCHANGED <<orchestratorVars, renderVars, nodeVars, locationVars>>

\* checksum = check.sum(), and the comparison with the expected checksum.
Checksum ==
  /\ stage = "checksum"
  /\ \E sum \in Checksums :
       /\ checksum' = Num(sum)
       /\ IF haveChecksum /\ StrictNotEqual(expectChecksum, Num(sum))
          THEN Exit("checksum") /\ UNCHANGED written
          ELSE Succeed("output") /\ UNCHANGED written
  /\ UNCHANGED <<cores, workerCount, argv, job, failingAttempts, haveChecksum, expectChecksum,
                 salts>>
  /\ UNCHANGED <<orchestratorVars, renderVars, nodeVars, locationVars>>

\* The url and the spoilers are printed; with --out-bin the input file is
\* read, the writes of check are applied to the copy, the error detection
\* codes are computed and the copy is written; in place, the error
\* detection codes are written to the input file, if there is one.
\* Reading the input (there may be none) and eccEdcCalc on the copy may
\* throw, with no file touched; fs.writeFileSync may throw before or after
\* it created the output file; in place, eccEdcCalc may throw with part of
\* the codes written.
WriteOutput ==
  /\ stage = "output"
  /\ IF argv.outBin
     THEN \E reached \in {"read", "codes", "write", "end"} :
            IF reached = "end" /\ argv.inBin
            THEN /\ written' = written \cup {"outBin"}
                 /\ stage' = "returned"
                 /\ UNCHANGED <<failure, exitStatus>>
            ELSE /\ Rejected("output")
                 /\ IF reached = "write" /\ argv.inBin
                    THEN \E created \in BOOLEAN :
                           written' = IF created THEN written \cup {"outBin"}
                                      ELSE written
                    ELSE UNCHANGED written
     ELSE IF argv.inBin
     THEN \E ok \in BOOLEAN :
            IF ok
            THEN /\ written' = Apply
                 /\ stage' = "returned"
                 /\ UNCHANGED <<failure, exitStatus>>
            ELSE /\ Rejected("output")
                 /\ ApplyInterrupted
     ELSE /\ stage' = "returned"
          /\ UNCHANGED <<failure, exitStatus, written>>
  /\ UNCHANGED <<cores, workerCount, argv, job, failingAttempts, haveChecksum, expectChecksum,
                 completed, salts, checksum>>
  /\ UNCHANGED <<orchestratorVars, renderVars, nodeVars, locationVars>>

NextRandomize ==
  \/ Prepare
  \/ RelicSearch
  \/ SearchRetry
  \/ SearchSettled
  \/ WriteRelics
  \/ RandomizeItems
  \/ ItemsSettled
  \/ RandomizeMusic
  \/ SetSeedText
  \/ Checksum
  \/ WriteOutput

SpecRandomize == InitRandomize /\ [][NextRandomize]_vars


(***************************************************************************)
(* Properties                                                              *)
(***************************************************************************)
Last(s) == s[Len(s)]
Settled == returned # NotSettled
Fulfilled == returned.state = "fulfilled"
IsSuccess(r) == DoneTruthy(r) /\ "nonce" \in r.keys
\* Workers whose resolved value is a success reply.
Successes == {i \in Workers : IsSuccess(promises[i])}
\* Positions in the history of handled replies.
SuccessPositions == {k \in DOMAIN received : IsSuccess(received[k][2])}
FirstSuccessPosition ==
  CHOOSE k \in SuccessPositions : \A l \in SuccessPositions : k <= l
CancelCount(log) == Cardinality({k \in DOMAIN log : log[k].cancel})
AttemptCount(log) == Cardinality({k \in DOMAIN log : IsAttempt(log[k])})

\* C1: when several success replies were collected, the returned result is
\* the success with the smallest nonce, whatever the workers' index order.
C1_SmallestNonceReturned ==
  (Settled /\ Cardinality(Successes) >= 2) =>
     /\ Fulfilled
     /\ IsSuccess(returned.value)
     /\ \A i \in Successes : returned.value.nonce <= promises[i].nonce

\* C2 (as claimed): in the step that handles the first success reply, every
\* other worker is sent a cancellation message.
C2_CancelsEveryOtherAtFirstSuccess ==
  [][(~done /\ done') =>
       \A j \in Workers :
          promises'[j] = Unresolved =>
             /\ sentLog'[j] # sentLog[j]
             /\ Last(sentLog'[j]) = CancelMessage]_vars

\* C2 (amended): a step of the orchestrator that sends a cancellation sends
\* exactly one, to the worker whose reply that step handles, and that reply
\* carries no error other than a boolean; every step that handles such a
\* reply at or after the first success sends one; a step that handles a
\* reply carrying an error that is not a boolean sends nothing at all.
C2_CancelsOnlyTheReplier ==
  [][LET handled == Len(received') = Len(received) + 1
         replier == Last(received')[1]
     IN /\ \A j \in Workers :
             CancelCount(sentLog'[j]) # CancelCount(sentLog[j]) =>
                /\ done'
                /\ handled
                /\ replier = j
                /\ ~Throws(Last(received')[2])
                /\ sentLog'[j] = Append(sentLog[j], CancelMessage)
                /\ \A k \in Workers \ {j} : sentLog'[k] = sentLog[k]
        /\ (done' /\ handled /\ ~Throws(Last(received')[2])) =>
             (CancelCount(sentLog'[replier])
                = CancelCount(sentLog[replier]) + 1)
        /\ (handled /\ Throws(Last(received')[2])) =>
             sentLog' = sentLog]_vars

\* The first success was handled, its sender was sent a cancellation, and
\* another worker with an attempt in flight has not been sent one.
C2_Witness ==
  /\ done
  /\ \E i, j \in Workers :
       /\ IsSuccess(promises[i])
       /\ CancelCount(sentLog[i]) = 1
       /\ promises[j] = Unresolved
       /\ CancelCount(sentLog[j]) = 0
       /\ AttemptCount(sentLog[j]) >= 1

\* C3 (as claimed): once the first success was handled, the result can be
\* produced without any further message from a worker.
C3_ResultWithoutWaiting ==
  (done /\ Alive) => (Settled \/ ENABLED Finish)

\* C3 (amended): the result is produced only after every worker delivered a
\* reply that was handled at or after the first success.
C3_ResultAfterEveryWorkerReplied ==
  Settled =>
    LET first == FirstSuccessPosition
    IN \A i \in Workers :
         /\ promises[i] # Unresolved
         /\ ~running[i]
         /\ \E k \in first..Len(received) : received[k] = <<i, promises[i]>>

\* The result was produced and one of the replies it waited for is the
\* failed attempt of a worker other than the first to succeed.
C3_Witness ==
  /\ Settled
  /\ \E i \in Workers : promises[i] = FailReply
  /\ \E i \in Workers : IsSuccess(promises[i])

\* Workers of which a reply with an error property was handled.
ErrorPositions == {k \in DOMAIN received : HasError(received[k][2])}
ErroredWorkers == {received[k][1] : k \in ErrorPositions}
\* The same for errors that are not booleans.
ThrownPositions ==
  {k \in DOMAIN received :
     HasError(received[k][2]) /\ ~ErrorIsBoolean(received[k][2])}
ThrowingWorkers == {received[k][1] : k \in ThrownPositions}

\* No step of the orchestration or of a worker can be taken any more.
AtRest == ~ENABLED Next

\* C4: once a worker has replied with an error, randomizeRelics ends in
\* failure carrying the first error received: when it has settled it is
\* rejected with that error, and it has settled when the orchestration has
\* come to rest; it returns no success result, whatever successes are
\* received before or after the error; and the erroring worker is sent no
\* further attempt, neither in the step that handles the error nor later.
C4_ErrorEndsTheSearch ==
  /\ [](ErroredWorkers # {} =>
          LET first == CHOOSE k \in ErrorPositions :
                         \A l \in ErrorPositions : k <= l
          IN /\ Settled =>
                  /\ returned.state = "rejected"
                  /\ returned.value = received[first][2]
             /\ AtRest => Settled)
  /\ [][ErroredWorkers' # {} =>
          /\ ~(Fulfilled' /\ IsSuccess(returned'.value))
          /\ \A i \in ErroredWorkers' :
               AttemptCount(sentLog'[i]) = AttemptCount(sentLog[i])]_vars

\* A worker reported a non-boolean error after another worker's success
\* was handled, and the process is still running.
C4_Witness ==
  /\ ThrowingWorkers # {}
  /\ host = "browser"
  /\ \E i \in Workers : IsSuccess(promises[i])
  /\ \E k \in ThrownPositions : k > FirstSuccessPosition

\* C5: the value randomizeRelics returns is always a success reply.
C5_ReturnsOnlySuccess ==
  Fulfilled => IsSuccess(returned.value)

\* No attempt run so far ended in an error of either kind.
OnlySuccessOrFailure ==
  \A n \in Nonces : outcomes[n] \in {"undecided", "success", "fail"}

\* C6: with the outcome of every nonce fixed to success or failure, a second
\* invocation with the same nonce base and workers accepts the same result
\* as the first, whatever the order in which the replies arrive.
C6_SameResultEveryOrder ==
  (run = 2 /\ Settled /\ OnlySuccessOrFailure) => returned = firstResult

\* C7: a success that arrives after the first success takes part in the
\* tie-break: when its nonce is smaller than that of the first success, the
\* returned result is a success with a nonce no larger than its own, and it
\* is the returned result itself when no success has a smaller nonce.
C7_LateSuccessInTieBreak ==
  Settled =>
    \A k \in SuccessPositions :
       (/\ k > FirstSuccessPosition
        /\ received[k][2].nonce < received[FirstSuccessPosition][2].nonce) =>
          /\ Fulfilled
          /\ IsSuccess(returned.value)
          /\ returned.value.nonce <= received[k][2].nonce
          /\ (\A l \in SuccessPositions :
                received[k][2].nonce <= received[l][2].nonce) =>
               returned.value = received[k][2]

\* C8: while no success was reported, handling a {done:false} reply of
\* worker i posts exactly one message, to worker i: an attempt carrying the
\* value of the nonce counter, which is then incremented.
C8_FailureRedispatchedToSameWorker ==
  [][\A i \in Workers :
       (~done /\ received' = Append(received, <<i, FailReply>>)) =>
          /\ sentLog'[i] = Append(sentLog[i],
               [keys |-> {"action", "nonce", "rounds"}, action |-> RELICS,
                nonce |-> nonce, rounds |-> DefaultRounds,
                bootstrap |-> FALSE, cancel |-> FALSE])
          /\ inbox'[i] = Append(inbox[i], Last(sentLog'[i]))
          /\ \A j \in Workers \ {i} :
               sentLog'[j] = sentLog[j] /\ inbox'[j] = inbox[j]
          /\ nonce' = nonce + 1
          /\ ~done']_vars

\* A {done:false} reply was just handled before any success and its sender
\* holds the attempt with the latest nonce.
C8_Witness ==
  /\ ~done
  /\ received # <<>>
  /\ Last(received)[2] = FailReply
  /\ LET i == Last(received)[1]
     IN /\ Last(sentLog[i]).nonce = nonce - 1
        /\ ~Last(sentLog[i]).bootstrap
        /\ AttemptCount(sentLog[i]) >= 2

\* The attempt messages posted to worker i so far.
Attempts(i) == SelectSeq(sentLog[i], IsAttempt)
BootstrapKeys ==
  {"action", "nonce", "rounds", "bootstrap", "options", "version", "seed",
   "removed"}
PlainKeys == {"action", "nonce", "rounds"}

\* C9: the first attempt message of every worker is tagged bootstrap and
\* carries options, version, seed and removed; every later one is not tagged
\* and carries only action, nonce and rounds; a worker reached by the loop
\* got exactly one bootstrap message.
C9_OneBootstrapFirst ==
  \A i \in Workers :
     LET attempts == Attempts(i)
     IN /\ (i <= started) <=> (Len(attempts) >= 1)
        /\ \A k \in DOMAIN attempts :
             LET m == attempts[k]
             IN /\ m.bootstrap <=> (k = 1)
                /\ m.keys = IF k = 1 THEN BootstrapKeys ELSE PlainKeys
                /\ m.action = RELICS
                /\ m.rounds = DefaultRounds

\* Every worker got its bootstrap message and one of them got a later
\* attempt message as well.
C9_Witness ==
  /\ started = NumWorkers
  /\ \E i \in Workers : Len(Attempts(i)) >= 2

\* C10: the nonce counter changes only in a step that posts an attempt
\* message, and then by one; steps of the workers leave it alone; the
\* attempt messages carry, in dispatch order, the nonce base, base + 1, ...
C10_NonceOwnedByOrchestrator ==
  /\ [](/\ nonce = NonceBase + Len(dispatched)
        /\ \A k \in DOMAIN dispatched :
             dispatched[k][2] = NonceBase + k - 1)
  /\ [][/\ nonce' # nonce =>
             /\ nonce' = nonce + 1
             /\ \E i \in Workers :
                  /\ dispatched' = Append(dispatched, <<i, nonce>>)
                  /\ IsAttempt(Last(sentLog'[i]))
                  /\ Last(sentLog'[i]).nonce = nonce
                  /\ Len(sentLog'[i]) > Len(sentLog[i])
        /\ (\E i \in Workers :
              \/ Len(inbox'[i]) < Len(inbox[i])
              \/ Len(replies'[i]) > Len(replies[i])) => nonce' = nonce
        /\ dispatched' # dispatched => nonce' # nonce]_vars

\* More attempts were dispatched than there are workers: some failed
\* attempt was answered with a new one.
C10_Witness ==
  /\ Len(dispatched) > NumWorkers
  /\ \E i \in Workers : replies[i] # <<>>

\* C11 (as claimed): once the configured budget (rounds attempts for each
\* worker) is used up, no further attempt is dispatched.
C11_StopsAfterBudget ==
  [][Len(dispatched) >= NumWorkers * DefaultRounds =>
       dispatched' = dispatched]_vars

\* Replies handled so far that did not make the listener throw.
AnsweredPositions == {k \in DOMAIN received : ~Throws(received[k][2])}

\* C11 (amended): as long as no success was received, randomizeRelics has
\* not settled and every reply that was handled without a throw was
\* answered with one more attempt, however many were dispatched before;
\* rounds is only forwarded, unchanged, in every attempt message.
C11_RetriesWithoutBound ==
  /\ (\A k \in DOMAIN received : ~IsSuccess(received[k][2])) =>
       /\ returned = NotSettled
       /\ Len(dispatched) = started + Cardinality(AnsweredPositions)
  /\ \A i \in Workers : \A k \in DOMAIN sentLog[i] :
       IsAttempt(sentLog[i][k]) => sentLog[i][k].rounds = DefaultRounds

\* No success so far, and more attempts were dispatched than the budget of
\* rounds attempts for each worker allows.
C11_Witness ==
  /\ SuccessPositions = {}
  /\ ~done
  /\ Len(dispatched) > NumWorkers * DefaultRounds
  /\ \E k \in DOMAIN received : received[k][2] = FailReply

\* The attempts dispatched to worker i and the replies handled from it, in
\* order: its k-th reply answers its k-th attempt.
DispatchesTo(i) == SelectSeq(dispatched, LAMBDA d : d[1] = i)
RepliesFrom(i) == SelectSeq(received, LAMBDA d : d[1] = i)

\* The attempt of nonce n was dispatched and its reply, a failure, was
\* handled by the orchestrator.
FailureReceived(n) ==
  \E i \in Workers :
    LET sent == DispatchesTo(i)
        got == RepliesFrom(i)
    IN \E k \in DOMAIN sent :
         /\ sent[k][2] = n
         /\ k <= Len(got)
         /\ got[k][2] = FailReply

\* C22: when no worker errors (the outcome of an attempt being a function of
\* its nonce alone), the result randomizeRelics returns carries the smallest
\* nonce >= the nonce base whose attempt succeeds: every smaller nonce was
\* dispatched and its reply, a failure, was received before the result is
\* returned.
C22_SmallestSucceedingNonce ==
  (Settled /\ OnlySuccessOrFailure) =>
     /\ Fulfilled
     /\ IsSuccess(returned.value)
     /\ \A n \in NonceBase..(returned.value.nonce - 1) : FailureReceived(n)

\* The orchestrator has handled a reply {done: true, nonce, result}.
SuccessReceived ==
  \E k \in DOMAIN received : \E n \in Nonces : received[k][2] = SuccessReply(n)

\* C23: once the orchestrator has received a success reply from any worker,
\* it dispatches no further attempt message to any worker, the step that
\* handles that reply included: the nonce counter keeps its value for the
\* rest of the orchestration.
C23_NoDispatchAfterSuccess ==
  [][SuccessReceived' =>
       /\ nonce' = nonce
       /\ dispatched' = dispatched
       /\ \A i \in Workers : AttemptCount(sentLog'[i]) = AttemptCount(sentLog[i])
    ]_vars

\* After a success, the failure of another worker was handled: the counter
\* is where the last dispatch before the success left it.
C23_Witness ==
  /\ SuccessReceived
  /\ Last(received)[2] = FailReply
  /\ Len(dispatched) > NumWorkers
  /\ nonce = NonceBase + Len(dispatched)

\* The attempt requests of worker i that are sent and not yet answered:
\* those it has not taken yet and those whose reply is not handled yet.
Outstanding(i) == AttemptCount(inbox[i]) + Len(replies[i])

\* The position of the first success among the handled replies, 0 when no
\* success was handled.
FirstSuccessOrZero ==
  LET positions == SuccessPositions
  IN IF positions = {} THEN 0
     ELSE CHOOSE k \in positions : \A j \in positions : k <= j

\* The positions of the replies of worker i handled at or after position
\* first (none when first is 0).
RepliesSince(first, i) ==
  IF first = 0 THEN {}
  ELSE {k \in first..Len(received) : received[k][1] = i}

\* The positions of the replies of worker i handled at or after the first
\* success.
RepliesSinceSuccess(i) == RepliesSince(FirstSuccessOrZero, i)

\* How many attempts were dispatched to worker i, and how many of its
\* replies were handled.
DispatchCount(i) ==
  Cardinality({k \in DOMAIN dispatched : dispatched[k][1] = i})
ReplyCount(i) == Cardinality({k \in DOMAIN received : received[k][1] = i})

\* C24: in every reachable state each worker has at most one attempt
\* request outstanding (sent and not yet answered), so each worker
\* contributes exactly one reply to the final selection: the first reply it
\* delivers at or after the first success.
C24_OneOutstandingOneContribution ==
  LET first == FirstSuccessOrZero
  IN \A i \in Workers :
       LET since == RepliesSince(first, i)
           outstanding == Outstanding(i)
       IN /\ outstanding <= 1
          /\ DispatchCount(i) = ReplyCount(i) + outstanding
          /\ Cardinality(since) <= 1
          /\ since # {} => outstanding = 0
          /\ promises[i] # Unresolved =>
               /\ since # {}
               /\ \A k \in since : received[k][2] = promises[i]
          /\ Settled => Cardinality(since) = 1

\* The result was produced, and a worker that was given a second attempt
\* contributed the failure of that attempt, delivered after the first
\* success.
C24_Witness ==
  /\ Settled
  /\ \E i \in Workers :
       /\ Len(DispatchesTo(i)) >= 2
       /\ promises[i] = FailReply
       /\ \A k \in RepliesSinceSuccess(i) : k > FirstSuccessPosition

\* C25: a cancellation message is sent to a worker only after some worker
\* has reported success, and by the time randomizeRelics returns its result
\* every worker has been sent at least one cancellation message.
C25_CancelAfterSuccessAllBeforeResult ==
  /\ \A i \in Workers : CancelCount(sentLog[i]) >= 1 => SuccessReceived
  /\ Settled => \A i \in Workers : CancelCount(sentLog[i]) >= 1

\* The result was returned: every worker was sent a cancellation, and one of
\* them has not taken it yet.
C25_Witness ==
  /\ Settled
  /\ \A i \in Workers : CancelCount(sentLog[i]) = 1
  /\ \E i \in Workers : inbox[i] # <<>> /\ Head(inbox[i]).cancel

\* Some dispatched attempt succeeded.
SomeAttemptSucceeded == \E n \in Nonces : outcomes[n] = "success"

\* C26: if every worker eventually replies to each attempt request it
\* receives, no worker replies with an error, and some dispatched attempt
\* succeeds, then randomizeRelics eventually returns a result.
C26_EventuallyReturns ==
  ([]OnlySuccessOrFailure /\ <>SomeAttemptSucceeded) => <>Settled

\* A result was returned in an orchestration without errors in which failed
\* attempts were answered with new ones.
C26_Witness ==
  /\ Settled
  /\ OnlySuccessOrFailure
  /\ SomeAttemptSucceeded
  /\ Len(dispatched) = MaxAttempts

(******************** properties of the minimizer **************************)
\* Every requirement of a scored solution, at every level.
RECURSIVE NodesOf(_)
NodesOf(solution) ==
  UNION {{solution.requirements[k]} \cup
         (IF "solution" \in DOMAIN solution.requirements[k]
          THEN NodesOf(solution.requirements[k].solution) ELSE {}) :
         k \in DOMAIN solution.requirements}

\* The selected solutions: the top level one and that of every requirement.
SolutionsOf(solution) ==
  {solution} \cup
  {node.solution : node \in {n \in NodesOf(solution) : "solution" \in DOMAIN n}}

\* Every proof node of a list of locks, at every level.
RECURSIVE RawNodesOf(_)
RawNodesOf(locks) ==
  UNION {UNION {{locks[a][m]} \cup
                (IF "locks" \in DOMAIN locks[a][m]
                 THEN RawNodesOf(locks[a][m].locks) ELSE {}) :
                m \in DOMAIN locks[a]} :
         a \in DOMAIN locks}

\* Every list of alternative locks of the input, and every lock.
AllLockLists ==
  {solutions} \cup
  {node.locks : node \in {n \in RawNodesOf(solutions) : "locks" \in DOMAIN n}}
AllLocks == UNION {{list[a] : a \in DOMAIN list} : list \in AllLockLists}

\* The items of the input that have no locks.
LeafItems ==
  {node.item : node \in {n \in RawNodesOf(solutions) : "locks" \notin DOMAIN n}}

Greatest(numbers) == CHOOSE x \in numbers : \A y \in numbers : y <= x

RequirementDepths(solution) ==
  {solution.requirements[k].depth : k \in DOMAIN solution.requirements}

\* Depths are as claimed, with the given depth for a leaf requirement.
DepthsFrom(leafDepth) ==
  LET leaves == LeafItems
  IN /\ \A node \in NodesOf(rendering.minified) :
          /\ node.item \in leaves <=> "solution" \notin DOMAIN node
          /\ "solution" \notin DOMAIN node => node.depth = leafDepth
          /\ "solution" \in DOMAIN node => node.depth = 1 + node.solution.depth
     /\ \A solution \in SolutionsOf(rendering.minified) :
          solution.depth = Greatest(RequirementDepths(solution))

\* C12 (as claimed): a leaf requirement has depth 0, a requirement with
\* locks has depth 1 + the depth of its selected sub-solution, and the depth
\* of a sub-solution is the greatest depth of its requirements.
C12_LeafDepthZero == Rendered => DepthsFrom(0)

\* C12 (amended): a leaf requirement has depth 1 (0 is the depth of the
\* accumulator that stands for "no alternative seen yet"), a requirement
\* with locks has depth 1 + the depth of its selected sub-solution, and the
\* depth of a sub-solution is the greatest depth of its requirements.
C12_LeafDepthOne == Rendered => DepthsFrom(1)

\* A requirement whose selected sub-solution has itself a requirement with
\* locks was scored, leaves included.
C12_Witness ==
  /\ Rendered
  /\ \E node \in NodesOf(rendering.minified) :
       /\ "solution" \in DOMAIN node
       /\ node.depth >= 3
       /\ \E leaf \in NodesOf(node.solution) : "solution" \notin DOMAIN leaf

\* The sum of the depths of a list of requirements.
RECURSIVE DepthTotal(_)
DepthTotal(requirements) ==
  IF requirements = <<>> THEN 0
  ELSE Head(requirements).depth + DepthTotal(Tail(requirements))

WeightAndAvg(solution) ==
  /\ solution.weight = DepthTotal(solution.requirements)
  /\ solution.avg.num * Len(solution.requirements) =
       solution.weight * solution.avg.den
  /\ solution.avg.den > 0

\* C13: for every candidate sub-solution minifySolution scores (one for every
\* lock of the input, the selected ones among them), weight is the sum of
\* the depths of its requirements and avg is weight divided by the number
\* of its requirements.
C13_WeightAndAverage ==
  IF Rendered
  THEN \A solution \in SolutionsOf(rendering.minified) : WeightAndAvg(solution)
  ELSE \A lock \in AllLocks : WeightAndAvg(Candidate(lock))

\* A selected solution of several requirements of different depths, whose
\* average is not a whole number.
C13_Witness ==
  /\ Rendered
  /\ \E solution \in SolutionsOf(rendering.minified) :
       /\ Len(solution.requirements) >= 2
       /\ Cardinality(RequirementDepths(solution)) >= 2
       /\ solution.weight % Len(solution.requirements) # 0

\* a is before b in the lexicographic order on (depth, weight, avg).
LexLess(a, b) ==
  \/ a.depth < b.depth
  \/ a.depth = b.depth /\ a.weight < b.weight
  \/ /\ a.depth = b.depth
     /\ a.weight = b.weight
     /\ a.weight * Len(b.requirements) < b.weight * Len(a.requirements)

\* The candidates of the first k alternatives of a list of locks.
RECURSIVE Scored(_, _)
Scored(locks, k) ==
  IF k = 0 THEN <<>> ELSE Append(Scored(locks, k - 1), Candidate(locks[k]))

\* The position of the first of the least alternatives of a list of locks.
FirstLeast(locks) ==
  LET scored == Scored(locks, Len(locks))
      least == {a \in DOMAIN locks :
                  \A b \in DOMAIN locks : ~LexLess(scored[b], scored[a])}
  IN CHOOSE a \in least : \A b \in least : a <= b

\* The proof node of an item among the given ones.
RawNodeOf(item, nodes) == CHOOSE node \in nodes : node.item = item

\* C14: reducing a non-empty list of alternative locks with minifySolution
\* returns the alternative that is least in the lexicographic order on
\* (depth, weight, avg), and the first of them in the list when several
\* are equal on all three.
C14_LeastAlternativeFirst ==
  IF Rendered
  THEN LET raw == RawNodesOf(solutions)
       IN /\ rendering.minified = Candidate(solutions[FirstLeast(solutions)])
          /\ \A node \in NodesOf(rendering.minified) :
               "solution" \in DOMAIN node =>
                 LET locks == RawNodeOf(node.item, raw).locks
                 IN node.solution = Candidate(locks[FirstLeast(locks)])
  ELSE \A locks \in AllLockLists :
         ReduceLocks(locks, Len(locks), NoSolution) =
           Candidate(locks[FirstLeast(locks)])

\* Two alternatives equal in depth and weight: the later one has the smaller
\* average and was selected.
C14_Witness ==
  /\ Rendered
  /\ Len(solutions) = 2
  /\ LET first == Candidate(solutions[1])
         second == Candidate(solutions[2])
     IN /\ first.depth = second.depth
        /\ first.weight = second.weight
        /\ Len(first.requirements) < Len(second.requirements)
        /\ rendering.minified = second

\* Every node of a list of pruned nodes, at every level.
RECURSIVE PrunedNodesOf(_)
PrunedNodesOf(nodes) ==
  UNION {{nodes[k]} \cup
         (IF "solution" \in DOMAIN nodes[k]
          THEN PrunedNodesOf(nodes[k].solution.requirements) ELSE {}) :
         k \in DOMAIN nodes}

\* The transitive ability closure of a node: its item and the closures of
\* its requirements.
RECURSIVE Closure(_)
Closure(node) ==
  {node.item} \cup
  (IF "solution" \in DOMAIN node
   THEN UNION {Closure(node.solution.requirements[k]) :
               k \in DOMAIN node.solution.requirements}
   ELSE {})

\* The requirement of that item, among the ones minifySolution left.
MinifiedNode(item, nodes) == CHOOSE node \in nodes : node.item = item

\* Requirement a of the list is processed before requirement b: it is
\* deeper, or as deep and earlier in the list.
ProcessedBefore(nodes, a, b) ==
  \/ nodes[a].depth > nodes[b].depth
  \/ nodes[a].depth = nodes[b].depth /\ a < b

\* The requirements of a list that add an ability to those processed before.
Contributing(nodes) ==
  {b \in DOMAIN nodes :
     ~(Closure(nodes[b]) \subseteq
         UNION {Closure(nodes[a]) :
                a \in {x \in DOMAIN nodes : ProcessedBefore(nodes, x, b)}})}

ItemsOf(nodes) == [k \in DOMAIN nodes |-> nodes[k].item]

\* C15: pruneSubsets leaves every requirement list it processes in
\* descending depth order, without exactly the nodes whose ability closure
\* is a subset of the union of the closures of the nodes processed before
\* them; every node it leaves adds an ability to the closures of the nodes
\* before it.
C15_PrunesExactlySubsets ==
  Rendered =>
    LET minified == NodesOf(rendering.minified)
    IN \A node \in PrunedNodesOf(rendering.pruned) :
      "solution" \in DOMAIN node =>
        LET left == node.solution.requirements
            given == MinifiedNode(node.item, minified).solution.requirements
        IN /\ \A k \in 1..(Len(left) - 1) : left[k].depth >= left[k + 1].depth
           /\ {left[k].item : k \in DOMAIN left} =
                {given[k].item : k \in Contributing(given)}
           /\ Len(left) = Cardinality(Contributing(given))
           /\ \A k \in DOMAIN left :
                ~(Closure(left[k]) \subseteq
                    UNION {Closure(left[j]) : j \in 1..(k - 1)})
           /\ \A k \in DOMAIN left :
                \A j \in 1..(k - 1) :
                  ProcessedBefore(given,
                    CHOOSE a \in DOMAIN given : given[a].item = left[j].item,
                    CHOOSE b \in DOMAIN given : given[b].item = left[k].item)

\* A list of three requirements was reordered by depth, lost a node that
\* another one covers, and kept two.
C15_Witness ==
  /\ Rendered
  /\ \E node \in PrunedNodesOf(rendering.pruned) :
       /\ "solution" \in DOMAIN node
       /\ LET left == node.solution.requirements
              given == MinifiedNode(node.item, NodesOf(rendering.minified))
                         .solution.requirements
          IN /\ Len(given) = 3
             /\ Len(left) = 2
             /\ ItemsOf(left) # SubSeq(ItemsOf(given), 1, 2)
             /\ given[1].depth < given[2].depth

\* The first of the deepest requirements of a list.
FirstDeepest(nodes) ==
  nodes[CHOOSE a \in DOMAIN nodes :
          \A b \in DOMAIN nodes \ {a} : ProcessedBefore(nodes, a, b)]

\* C27: pruneSubsets never changes the transitive ability closure of a node
\* it is applied to and never empties a requirement list: the deepest node
\* of each list is always kept (it is the first of the pruned list), and
\* the set of abilities reachable from each remaining node is the same
\* before and after pruning.
C27_PruningKeepsClosure ==
  Rendered =>
    LET minified == NodesOf(rendering.minified)
    IN \A node \in PrunedNodesOf(rendering.pruned) :
         LET before == MinifiedNode(node.item, minified)
         IN /\ Closure(node) = Closure(before)
            /\ "solution" \in DOMAIN node <=> "solution" \in DOMAIN before
            /\ "solution" \in DOMAIN node =>
                 /\ node.solution.requirements # <<>>
                 /\ node.solution.requirements[1].item =
                      FirstDeepest(before.solution.requirements).item

\* A requirement that has requirements of its own was pruned from a list:
\* what it reaches is reached through the deepest node of the list.
C27_Witness ==
  /\ Rendered
  /\ \E node \in PrunedNodesOf(rendering.pruned) :
       /\ "solution" \in DOMAIN node
       /\ LET left == node.solution.requirements
              given == MinifiedNode(node.item, NodesOf(rendering.minified))
                         .solution.requirements
          IN \E k \in DOMAIN given :
               /\ "solution" \in DOMAIN given[k]
               /\ \A j \in DOMAIN left : left[j].item # given[k].item
               /\ Closure(given[k]) \subseteq Closure(left[1])

\* A simplified node with exactly one child.
SingleChild(node) == "solution" \in DOMAIN node /\ Len(node.solution) = 1

\* The tokens of the maximal single-child chain that starts at a node, and
\* the node the chain ends at.
RECURSIVE ChainItems(_), ChainEnd(_)
ChainItems(node) ==
  IF SingleChild(node) THEN <<node.item>> \o ChainItems(node.solution[1])
  ELSE <<node.item>>
ChainEnd(node) ==
  IF SingleChild(node) THEN ChainEnd(node.solution[1]) ELSE node

\* compound is the chain that starts at node merged into one node, over the
\* merged chains of the children of the end of that chain.
RECURSIVE CollapseOf(_, _)
CollapseOf(compound, node) ==
  /\ compound.items = ChainItems(node)
  /\ LET end == ChainEnd(node)
     IN IF "solution" \in DOMAIN end
        THEN /\ "solution" \in DOMAIN compound
             /\ Len(compound.solution) = Len(end.solution)
             /\ \A k \in DOMAIN end.solution :
                  CollapseOf(compound.solution[k], end.solution[k])
        ELSE "solution" \notin DOMAIN compound

\* C16: collapseSolution merges every maximal chain of single-child nodes
\* into one compound node whose items are the tokens of the chain in chain
\* order, and whose children are the collapsed children of the last node of
\* the chain.
C16_CollapsesMaximalChains ==
  Rendered =>
    /\ Len(rendering.collapsed) = Len(rendering.simplified)
    /\ \A k \in DOMAIN rendering.simplified :
         CollapseOf(rendering.collapsed[k], rendering.simplified[k])

\* A chain of two tokens was merged, above two children.
C16_Witness ==
  /\ Rendered
  /\ \E k \in DOMAIN rendering.collapsed :
       /\ Len(rendering.collapsed[k].items) >= 2
       /\ "solution" \in DOMAIN rendering.collapsed[k]
       /\ Len(rendering.collapsed[k].solution) >= 2
       /\ Len(rendering.simplified[k].solution) = 1

\* Every node of a list of collapsed trees, at every level.
RECURSIVE CompoundNodesOf(_)
CompoundNodesOf(nodes) ==
  UNION {{nodes[k]} \cup
         (IF "solution" \in DOMAIN nodes[k]
          THEN CompoundNodesOf(nodes[k].solution) ELSE {}) :
         k \in DOMAIN nodes}

\* A collapsed tree with the items of every node replaced by one undefined.
RECURSIVE Blank(_)
Blank(node) ==
  IF "solution" \in DOMAIN node
  THEN [items |-> <<"undefined">>,
        solution |-> [k \in DOMAIN node.solution |-> Blank(node.solution[k])]]
  ELSE [items |-> <<"undefined">>]

\* pruneSubsets on the trees it pruned removes nothing.
PruningRepeats ==
  \A k \in DOMAIN rendering.pruned :
    pruneSubsets(rendering.pruned[k], EmptyMap).node = rendering.pruned[k]

\* C17 (as claimed): applying pruneSubsets to the pruned trees and
\* collapseSolution to the collapsed trees a second time leaves them
\* unchanged.
C17_MinimizedIsFixedPoint ==
  Rendered =>
    /\ PruningRepeats
    /\ \A k \in DOMAIN rendering.collapsed :
         collapseSolution(rendering.collapsed[k]) = rendering.collapsed[k]

\* C17 (amended): pruneSubsets applied again to the trees it pruned leaves
\* them unchanged, and no node of a collapsed tree has exactly one child, so
\* no chain is left to merge; collapseSolution applied to its own output
\* keeps the shape of the tree but reads the missing property item of every
\* node, and so replaces every list of items by one undefined.
C17_PruningIdempotentCollapseNot ==
  Rendered =>
    /\ PruningRepeats
    /\ \A node \in CompoundNodesOf(rendering.collapsed) :
         "solution" \in DOMAIN node => Len(node.solution) >= 2
    /\ \A k \in DOMAIN rendering.collapsed :
         collapseSolution(rendering.collapsed[k]) = Blank(rendering.collapsed[k])

\* A tree that lost a node to pruning and had a chain merged went through
\* both steps a second time.
C17_Witness ==
  /\ Rendered
  /\ \E k \in DOMAIN rendering.pruned :
       /\ "solution" \in DOMAIN rendering.pruned[k]
       /\ Len(rendering.pruned[k].solution.requirements) <
            Len(rendering.minified.requirements[k].solution.requirements)
       /\ Len(rendering.collapsed[k].items) >= 2
       /\ collapseSolution(rendering.collapsed[k]) # rendering.collapsed[k]

(********************* properties of the renderer **************************)
\* The name of the relic of an ability.
RelicName(ability) ==
  Relics[CHOOSE k \in DOMAIN Relics : Relics[k].ability = ability].name

\* The names of a list of tokens, joined by " < ".
RECURSIVE Joined(_)
Joined(items) ==
  IF Len(items) = 1 THEN RelicName(items[1])
  ELSE Joined(SubSeq(items, 1, Len(items) - 1)) \o " < "
         \o RelicName(items[Len(items)])

\* The nodes of a list of compound trees in the order of their lines, each
\* with its joined names and whether it is the child of another node.
RECURSIVE Outline(_, _), OutlineOfList(_, _)
Outline(node, child) ==
  <<[text |-> Joined(node.items), child |-> child]>> \o
  (IF "solution" \in DOMAIN node THEN OutlineOfList(node.solution, TRUE)
   ELSE <<>>)
OutlineOfList(nodes, child) ==
  IF nodes = <<>> THEN <<>>
  ELSE Outline(Head(nodes), child) \o OutlineOfList(Tail(nodes), child)

\* A line without the spaces it starts with.
RECURSIVE StripSpaces(_)
StripSpaces(line) ==
  IF Len(line) > 0 /\ SubSeq(line, 1, 1) = " "
  THEN StripSpaces(SubSeq(line, 2, Len(line)))
  ELSE line

\* C18: every compound node is printed as one line that holds its token
\* names joined by " < "; the line of a child of another node starts, after
\* its indentation, with "^ ", and the line of a top-level node has neither
\* indentation nor that prefix.
C18_OneLinePerNode ==
  Rendered =>
    LET outline == OutlineOfList(rendering.collapsed, FALSE)
    IN /\ Len(rendering.lines) = Len(outline)
       /\ \A k \in DOMAIN outline :
            IF outline[k].child
            THEN StripSpaces(rendering.lines[k]) = "^ " \o outline[k].text
            ELSE rendering.lines[k] = outline[k].text

\* A top-level node of two tokens was printed above the lines of its two
\* children.
C18_Witness ==
  /\ Rendered
  /\ \E k \in DOMAIN rendering.collapsed :
       /\ Len(rendering.collapsed[k].items) = 2
       /\ "solution" \in DOMAIN rendering.collapsed[k]
  /\ \E k \in DOMAIN rendering.lines :
       StripSpaces(rendering.lines[k]) # rendering.lines[k]

\* That many spaces.
RECURSIVE Pad(_)
Pad(width) == IF width = 0 THEN "" ELSE Pad(width - 1) \o " "

\* The lines of a node printed at a level, its children indented by that
\* level, plus 2 under a prefixed node, plus the width of the node's joined
\* names up to the last one.
RECURSIVE ExpectedLines(_, _, _), ExpectedChildren(_, _)
ExpectedLines(level, sub, node) ==
  <<Pad(level) \o (IF sub THEN "^ " ELSE "") \o Joined(node.items)>> \o
  (IF "solution" \in DOMAIN node
   THEN ExpectedChildren(
          level + (IF sub THEN 2 ELSE 0) + Len(Joined(node.items))
            - Len(RelicName(node.items[Len(node.items)])),
          node.solution)
   ELSE <<>>)
ExpectedChildren(level, nodes) ==
  IF nodes = <<>> THEN <<>>
  ELSE ExpectedLines(level, TRUE, Head(nodes))
         \o ExpectedChildren(level, Tail(nodes))

\* The tree has two tokens and one child of one token, which has no child.
TwoTokensOneChild ==
  /\ Len(tree.items) = 2
  /\ "solution" \in DOMAIN tree
  /\ Len(tree.solution) = 1
  /\ Len(tree.solution[1].items) = 1
  /\ "solution" \notin DOMAIN tree.solution[1]

\* C19: a tree with items [A, B] and one child with items [C] is printed as
\* the two lines "A < B" and "^ C", the second indented up to the column
\* where B starts; in general the children of a node are indented by the
\* indentation of their parent, plus 2 if the parent has the prefix "^ ",
\* plus the width of the parent's printed names up to the last one.
C19_ChildrenUnderLastToken ==
  treeLines # <<>> =>
    /\ treeLines = ExpectedLines(0, FALSE, tree)
    /\ TwoTokensOneChild =>
         treeLines =
           << RelicName(tree.items[1]) \o " < " \o RelicName(tree.items[2]),
              Pad(Len(RelicName(tree.items[1])) + 3) \o "^ "
                \o RelicName(tree.solution[1].items[1]) >>

\* A node of two tokens was printed, then its child of two tokens with the
\* prefix, then the child of that one.
C19_Witness ==
  /\ treeLines # <<>>
  /\ Len(tree.items) = 2
  /\ "solution" \in DOMAIN tree
  /\ Len(tree.solution[1].items) = 2
  /\ "solution" \in DOMAIN tree.solution[1]
  /\ Len(treeLines) = 3

(******************** properties of the locations **************************)
\* The extensions a mode includes.
Included(relicLocations) ==
  IF "extension" \notin relicLocations.keys THEN {}
  ELSE IF relicLocations.extension = GUARDED THEN {GUARDED}
  ELSE IF relicLocations.extension = EQUIPMENT THEN {GUARDED, EQUIPMENT}
  ELSE {}

\* The base locations, and the extension locations the mode includes.
ExpectedLocations ==
  {Relics[k].ability : k \in DOMAIN Relics} \cup
  {extensions[k].name :
     k \in {x \in DOMAIN extensions :
              extensions[x].extension \in Included(options.relicLocations)}}

Listed(list) == {list[k] : k \in DOMAIN list}

\* C20: without an extension only the base locations are included, with
\* guarded the base and the guarded locations, with equipment the base, the
\* guarded and the equipment locations; presetMetaHelp and the filter of
\* optionsToString compute the same locations for every mode (of these,
\* the string of optionsToString has a lock for the ones the options hold
\* locks for, unless it names a preset).
C20_SameLocationsEveryMode ==
  /\ helpLocations # <<>> => Listed(helpLocations) = ExpectedLocations
  /\ keptLocations # <<>> =>
       /\ Listed(keptLocations) = ExpectedLocations
       /\ locationString.preset = "none" =>
            Listed(locationString.locations) =
              ExpectedLocations \cap options.relicLocations.keys
  /\ helpLocations # <<>> /\ keptLocations # <<>> =>
       helpLocations = keptLocations

\* Both were computed for the equipment mode over a table that has guarded
\* and equipment locations, for options that hold locks for some of the
\* locations only and are not those of a loaded preset.
C20_Witness ==
  /\ helpLocations # <<>>
  /\ keptLocations # <<>>
  /\ presets # <<>>
  /\ locationString.preset = "none"
  /\ locationString.locations # <<>>
  /\ locationString.locations # keptLocations
  /\ options.relicLocations.extension = EQUIPMENT
  /\ \E a, b \in DOMAIN extensions :
       /\ extensions[a].extension = GUARDED
       /\ extensions[b].extension = EQUIPMENT
       /\ extensions[a].name \in Listed(helpLocations)
       /\ extensions[b].name \in Listed(keptLocations)

(************* properties of collapsed trees and their lines ***************)
\* How often a token occurs in a list of tokens.
RECURSIVE Occurrences(_, _)
Occurrences(items, token) ==
  IF items = <<>> THEN 0
  ELSE (IF Head(items) = token THEN 1 ELSE 0) + Occurrences(Tail(items), token)

\* How often a token occurs in a simplified tree, and in a list of them.
RECURSIVE TokenCount(_, _), TokenCountOfList(_, _)
TokenCount(node, token) ==
  (IF node.item = token THEN 1 ELSE 0) +
  (IF "solution" \in DOMAIN node THEN TokenCountOfList(node.solution, token)
   ELSE 0)
TokenCountOfList(nodes, token) ==
  IF nodes = <<>> THEN 0
  ELSE TokenCount(Head(nodes), token) + TokenCountOfList(Tail(nodes), token)

\* The nodes of a list of collapsed trees in pre-order.
RECURSIVE PreOrder(_)
PreOrder(nodes) ==
  IF nodes = <<>> THEN <<>>
  ELSE <<Head(nodes)>> \o
       (IF "solution" \in DOMAIN Head(nodes) THEN PreOrder(Head(nodes).solution)
        ELSE <<>>) \o
       PreOrder(Tail(nodes))

\* How often a token occurs in the items lists of a list of collapsed nodes.
RECURSIVE CompoundTokenCount(_, _)
CompoundTokenCount(nodes, token) ==
  IF nodes = <<>> THEN 0
  ELSE Occurrences(Head(nodes).items, token)
         + CompoundTokenCount(Tail(nodes), token)

EndsWith(line, text) ==
  /\ Len(line) >= Len(text)
  /\ SubSeq(line, Len(line) - Len(text) + 1, Len(line)) = text

Abilities == {Ability(k) : k \in 1..NumRelics}

\* C28: in the output of collapseSolution no node has exactly one child,
\* every items list is non-empty, and the multiset of tokens over all items
\* lists equals the multiset of tokens of the nodes of the input tree; the
\* lines renderNode produces are as many as the compound nodes, one for
\* each node in pre-order.
C28_CollapsedShapeAndLines ==
  Rendered =>
    LET nodes == PreOrder(rendering.collapsed)
    IN /\ \A k \in DOMAIN nodes :
            /\ nodes[k].items # <<>>
            /\ "solution" \in DOMAIN nodes[k] => Len(nodes[k].solution) # 1
       /\ \A k \in DOMAIN rendering.collapsed :
            \A token \in Abilities \cup {"undefined"} :
              CompoundTokenCount(PreOrder(<<rendering.collapsed[k]>>), token) =
                TokenCount(rendering.simplified[k], token)
       /\ Len(rendering.lines) = Len(nodes)
       /\ \A k \in DOMAIN nodes :
            EndsWith(rendering.lines[k], Joined(nodes[k].items))

\* A tree of four tokens was collapsed into a merged chain above two
\* children: four tokens on three lines.
C28_Witness ==
  /\ Rendered
  /\ \E k \in DOMAIN rendering.collapsed :
       LET node == rendering.collapsed[k]
           nodes == PreOrder(<<node>>)
       IN /\ Len(node.items) = 2
          /\ Len(nodes) = 3
          /\ \A token \in Abilities : TokenCount(rendering.simplified[k], token) = 1
          /\ \A token \in Abilities : CompoundTokenCount(nodes, token) = 1

(******************* properties of the command line ************************)

\* C21: the worker count workerCountFromCores derives from the number of
\* cores is at least 1 for every core count >= 0, equals floor(3*cores/4)
\* whenever that is at least 1, and never exceeds the core count when
\* cores >= 1.
C21_WorkerCountFromCores ==
  workerCount # NoCount =>
    /\ workerCount >= 1
    /\ (3 * cores) \div 4 >= 1 => workerCount = (3 * cores) \div 4
    /\ cores >= 1 => workerCount <= cores

\* One core: three quarters of it round down to no worker, and one worker
\* is counted.
C21_Witness ==
  /\ cores = 1
  /\ workerCount = 1

\* The salts of the run computed for a use.
\* The nonces a run can salt with, and one more.
RunNonces ==
  0..(NonceBase + workerCountFromCores(Greatest(Machines)) + MaxRetries)

\* C29: in a run of the command line the nonces that salt the random
\* streams never collide: the attempts of the relic search use 3, 4, 5, ...,
\* relic writing uses 0, item randomization 1 and music 2; saltSeed yields
\* distinct salts for distinct nonces under the same version, options and
\* seed, and treats an absent nonce as 0.
C29_SaltsNeverCollide ==
  /\ \A a, b \in DOMAIN salts :
       a # b => salts[a].nonce # salts[b].nonce /\ salts[a].salt # salts[b].salt
  /\ LET search == SaltsOf("search")
     IN \A k \in DOMAIN search : search[k].nonce = 3 + k - 1
  /\ \A k \in DOMAIN salts :
       /\ salts[k].use = "write" => salts[k].nonce = 0
       /\ salts[k].use = "items" => salts[k].nonce = 1
       /\ salts[k].use = "music" => salts[k].nonce = 2
       /\ salts[k].nonce \in RunNonces
  /\ Cardinality({saltSeed(job.version, job.options, job.seed, Num(n)) :
                     n \in RunNonces}) = Cardinality(RunNonces)
  /\ saltSeed(job.version, job.options, job.seed, Undefined)
       = saltSeed(job.version, job.options, job.seed, Num(0))

\* The music was salted after a relic search of more than ten attempts: the
\* run has used the nonces 0, 1, 2 and 3 to 13 or more.
C29_Witness ==
  /\ Len(SaltsOf("music")) = 1
  /\ Len(SaltsOf("items")) = 1
  /\ Len(SaltsOf("write")) = 1
  /\ Len(SaltsOf("search")) > 10
  /\ Len(salts) = Len(SaltsOf("search")) + 3

\* The stages of a run with an output file, in order.
Stages == <<"search", "write", "items", "music", "text", "checksum">>

====
